---- MODULE Spec2Model ----
(***************************************************************************)
(* Model of the photo report application (genbaphoto): the state store     *)
(* (StateManager), the image cache (MemoryManager), the file validator     *)
(* and the ingestion pipeline of print-script.js.                          *)
(*                                                                         *)
(* Text values (siteName, location, ...) are tuples of one-character       *)
(* strings.  A data URL is a record [pfx, body]; pfx is the beginning of   *)
(* the string ("data:image/" for an embedded image), body stands for the   *)
(* rest.  JavaScript null and undefined are the URL values Null and        *)
(* Undefined.                                                              *)
(***************************************************************************)
EXTENDS Integers, Sequences, FiniteSets, TLC

\* ------------------------------------------------------------------------
\* Program constants (config.js, state-manager.js)
\* ------------------------------------------------------------------------
MAX_FILE_SIZE == 52428800
MAX_FILE_COUNT == 100
MAX_CONCURRENT_UPLOADS == 3
MAX_CACHE_SIZE == 50
maxHistorySize == 50
ALLOWED_FILE_TYPES == {"image/jpeg", "image/png", "image/gif", "image/webp"}

\* ------------------------------------------------------------------------
\* Bounds of the model
\* ------------------------------------------------------------------------
\* number of handleFilesAsync calls that may be in flight together
MaxCalls == 2
\* files handed to the ingest calls of one behaviour, all calls together
MaxFiles == 4
\* files of one drop on the whole application
MaxDrop == 2
\* load and remove events in one behaviour of the application
MaxUserOps == 1
\* failing reads, decodes and encodes in one behaviour of the application
MaxFaults == 1
\* thumbnail decodes that finish in one behaviour of the application
MaxThumbs == 1
\* setState calls in one behaviour of the bare store
MaxUpdates == 52
\* setState calls with saveToHistory = false in one behaviour of the store
MaxSilent == 1
\* subscriptions made in one behaviour of the bare store
MaxObservers == 2
\* recorded updates in one behaviour of the store driven through a round trip
MaxRound == 4
\* distinct keys added to the cache driven alone
MaxKeys == 52
\* calls on the cache driven alone other than the additions of new keys
MaxCacheOps == 1
\* photos in the lists handed to the layout functions
MaxPhotos == 17
\* iterations of the loop of chunkArray that are followed
MaxLoop == 20
\* loads and setting changes when the state files and the settings are
\* driven alone
MaxCycle == 2
\* the time the form is followed for, in units of 100 ms
MaxTime == 10
\* the bare store makes its unrecorded updates after every SilentEvery-th
\* recorded one
SilentEvery == 25

\* ------------------------------------------------------------------------
\* Values
\* ------------------------------------------------------------------------
Null == [pfx |-> "null", body |-> 0]
Undefined == [pfx |-> "undefined", body |-> 0]
DataImage(b) == [pfx |-> "data:image/", body |-> b]
\* String.prototype.startsWith('data:image/') on a url value
startsWithDataImage(u) == u.pfx = "data:image/"
\* JavaScript truthiness of a url value (null, undefined and '' are falsy)
Truthy(u) == u.pfx \notin {"null", "undefined", ""}

TODAY == "2026-11-05"

DEFAULT_SETTINGS ==
    [siteName |-> <<>>, personName |-> <<>>, date |-> "",
     photosPerPage |-> 4, orientation |-> "portrait",
     fontFamily |-> "sans-serif", fontSize |-> 10, fontWeight |-> "normal",
     imageQuality |-> "high", imageDisplayMode |-> "trim",
     photos |-> <<>>, zoomLevel |-> 1]

\* The numbers that are no integers are kept apart from every integer the
\* model computes with: NaN, and the null that JSON writes for it
NaN == -999999
NullNumber == -999998

Min(a, b) == IF a < b THEN a ELSE b
Max(a, b) == IF a > b THEN a ELSE b

VARIABLES
    state,        \* StateManager.state
    history,      \* StateManager.history
    observers,    \* StateManager.observers
    notified,     \* the callbacks made by the store during the last step
    ret,          \* [op, value]: the last store operation and what it returned
    run,          \* [n, s, u, clean]: counts of store calls since construction
    calls,        \* the handleFilesAsync activations
    used,         \* [files, ops, faults, thumbs]: events of the environment so far
    thumbs,       \* createThumbnail decodes in flight
    imageCache,   \* MemoryManager.imageCache, in insertion order
    nextId,       \* source of the values Date.now() + Math.random()
    notification, \* the message of the last showNotification of the ingest
    probe         \* the last call made on a component driven alone, with its
                  \* arguments and its result

vars == <<state, history, observers, notified, ret, run, calls, used,
          thumbs, imageCache, nextId, notification, probe>>

storeVars == <<state, history, observers, notified, ret, run>>
appVars == <<calls, used, thumbs, imageCache, nextId, notification, probe>>

\* ------------------------------------------------------------------------
\* StateManager (state-manager.js)
\* ------------------------------------------------------------------------
\* the element of a one-element set; The({e(x) : x \in {v}}) is e(v) with v
\* evaluated once
The(S) == CHOOSE x \in S : TRUE

\* { ...a, ...b }: the keys of b override those of a
Spread(a, b) ==
    [k \in (DOMAIN a) \cup (DOMAIN b) |-> IF k \in DOMAIN b THEN b[k] ELSE a[k]]

\* JSON.parse(JSON.stringify(photo)): a new object with the same content; a
\* property whose value is undefined is left out, so it reads undefined again
JSONCopyPhoto(p) == [p EXCEPT !.ref = 0]

\* JSON.parse(JSON.stringify(x)) of a number: NaN is written as null
JSONNumber(x) == IF x = NaN THEN NullNumber ELSE x

\* JSON.parse(JSON.stringify(s)): the snapshot shares no object with s
JSONCopy(s) ==
    [s EXCEPT !.photos = [i \in 1..Len(s.photos) |-> JSONCopyPhoto(s.photos[i])],
              !.photosPerPage = JSONNumber(@),
              !.fontSize = JSONNumber(@),
              !.zoomLevel = JSONNumber(@)]

\* saveToHistory without the size limit
saveToHistoryNoCap(h, s) == Append(h, JSONCopy(s))

\* saveToHistory that pushes the state as it is, photo objects included
saveToHistoryShared(h, s) ==
    LET pushed == Append(h, s)
    IN  IF Len(pushed) > maxHistorySize THEN Tail(pushed) ELSE pushed

\* saveToHistory(state): push a deep copy, drop the oldest entry over the cap
saveToHistory(h, s) ==
    LET pushed == Append(h, JSONCopy(s))
    IN  IF Len(pushed) > maxHistorySize THEN Tail(pushed) ELSE pushed

\* The subscribers: "cbThrows" throws when it is called, "cbAssigns" assigns
\* to a field of each of the two objects it receives, every other one only
\* reads them
Throws(cb) == cb = "cbThrows"
Assigns(cb) == cb = "cbAssigns"

\* the object obj after callback cb has received it
AfterCallback(cb, obj, text) ==
    IF Assigns(cb) THEN [obj EXCEPT !.siteName = text] ELSE obj

\* the observers called without the try/catch: the first exception ends the
\* forEach and leaves notifyObservers
RECURSIVE NotifyRunNoCatch(_, _, _)
NotifyRunNoCatch(obs, oldState, newState) ==
    IF obs = <<>>
    THEN [calls |-> <<>>, error |-> FALSE, oldState |-> oldState, newState |-> newState]
    ELSE LET cb == Head(obs)
             call == [cb |-> cb, newState |-> newState, oldState |-> oldState]
         IN  IF Throws(cb)
             THEN [calls |-> <<call>>, error |-> TRUE,
                   oldState |-> oldState, newState |-> newState]
             ELSE LET rest == NotifyRunNoCatch(Tail(obs),
                                               AfterCallback(cb, oldState, <<"o">>),
                                               AfterCallback(cb, newState, <<"n">>))
                  IN  [rest EXCEPT !.calls = <<call>> \o @]

\* this.observers.forEach(callback => { try { callback(newState, oldState) }
\* catch ... }): the calls made with what each callback received, whether an
\* exception leaves notifyObservers, and the two objects after the calls
RECURSIVE NotifyRun(_, _, _)
NotifyRun(obs, oldState, newState) ==
    IF obs = <<>>
    THEN [calls |-> <<>>, error |-> FALSE, oldState |-> oldState, newState |-> newState]
    ELSE LET cb == Head(obs)
             call == [cb |-> cb, newState |-> newState, oldState |-> oldState]
             rest == NotifyRun(Tail(obs),
                               AfterCallback(cb, oldState, <<"o">>),
                               AfterCallback(cb, newState, <<"n">>))
         IN  [rest EXCEPT !.calls = <<call>> \o @]

\* the callbacks with the arguments swapped
notifyObserversSwapped(obs, oldState, newState) ==
    NotifyRun(obs, newState, oldState).calls

\* notifyObservers(oldState, newState): one callback per registered observer,
\* in registration order
notifyObservers(obs, oldState, newState) ==
    NotifyRun(obs, oldState, newState).calls

\* whether notifyObservers(oldState, newState) ends with an exception
notifyThrows(obs, oldState, newState) ==
    NotifyRun(obs, oldState, newState).error

\* the object passed as newState, which is this.state itself, after
\* notifyObservers(oldState, this.state)
notifiedState(obs, oldState, newState) ==
    NotifyRun(obs, oldState, newState).newState

\* A store is [state, history, notified]; the operations below return the
\* store after the call.
setState(sm, obs, updates, save) ==
    LET oldState == sm.state
        newState == Spread(sm.state, updates)
    IN  [state |-> notifiedState(obs, oldState, newState),
         history |-> IF save THEN saveToHistory(sm.history, oldState) ELSE sm.history,
         notified |-> sm.notified \o notifyObservers(obs, oldState, newState)]

\* set(key, value): setState({ [key]: value }, true)
setPhotos(sm, obs, photos) == setState(sm, obs, [photos |-> photos], TRUE)

\* undo() reading the last entry without removing it
undoKeepEntry(sm, obs) ==
    LET previousState == sm.history[Len(sm.history)]
    IN  [state |-> notifiedState(obs, sm.state, previousState),
         history |-> sm.history,
         notified |-> sm.notified \o notifyObservers(obs, sm.state, previousState)]

\* undo() on a non-empty history
undoPop(sm, obs) ==
    LET previousState == sm.history[Len(sm.history)]
    IN  [state |-> notifiedState(obs, sm.state, previousState),
         history |-> SubSeq(sm.history, 1, Len(sm.history) - 1),
         notified |-> sm.notified \o notifyObservers(obs, sm.state, previousState)]

\* undo(): [sm, value], value being what the call returns
undo(sm, obs) ==
    IF Len(sm.history) = 0
    THEN [sm |-> sm, value |-> FALSE]
    ELSE [sm |-> undoPop(sm, obs), value |-> TRUE]

\* reset()
reset(sm, obs) ==
    [state |-> notifiedState(obs, sm.state, DEFAULT_SETTINGS),
     history |-> <<>>,
     notified |-> sm.notified \o notifyObservers(obs, sm.state, DEFAULT_SETTINGS)]

\* ------------------------------------------------------------------------
\* MemoryManager (memory-manager.js); the cache is the sequence of the Map's
\* entries [key, thumbnail, original] in insertion order
\* ------------------------------------------------------------------------
HasKey(cache, id) == \E i \in 1..Len(cache) : cache[i].key = id

\* Map.prototype.set: a present key keeps its place
cacheSet(cache, id, data) ==
    LET entry == [key |-> id, thumbnail |-> data.thumbnail, original |-> data.original]
    IN  IF HasKey(cache, id)
        THEN [i \in 1..Len(cache) |-> IF cache[i].key = id THEN entry ELSE cache[i]]
        ELSE Append(cache, entry)

\* cleanupCache() that deletes nothing
cleanupCacheNone(cache) == cache

\* cleanupCache() that deletes the last size - MAX_CACHE_SIZE keys
cleanupCacheNewest(cache) ==
    IF Len(cache) > MAX_CACHE_SIZE THEN SubSeq(cache, 1, MAX_CACHE_SIZE) ELSE cache

\* cleanupCache(): delete the first size - MAX_CACHE_SIZE keys
cleanupCache(cache) ==
    IF Len(cache) > MAX_CACHE_SIZE
    THEN SubSeq(cache, Len(cache) - MAX_CACHE_SIZE + 1, Len(cache))
    ELSE cache

\* addToCache(id, data)
addToCache(cache, id, data) == cleanupCache(cacheSet(cache, id, data))

\* removeFromCache(id)
removeFromCache(cache, id) == SelectSeq(cache, LAMBDA e : e.key # id)

\* revokeImageUrl(photoId, photo): the photo object after the call
revokedPhoto(photo) ==
    [photo EXCEPT
        !.url = IF Truthy(photo.url) /\ startsWithDataImage(photo.url) THEN Null ELSE @,
        !.thumbnail = IF Truthy(photo.thumbnail) /\ startsWithDataImage(photo.thumbnail)
                      THEN Null ELSE @]

\* cleanupAllImageUrls(photos) that releases the urls only
cleanupAllImageUrlsUrlOnly(photos) ==
    [i \in 1..Len(photos) |->
        [photos[i] EXCEPT
            !.url = IF Truthy(photos[i].url) /\ startsWithDataImage(photos[i].url) THEN Null ELSE @]]

\* cleanupAllImageUrls(photos): the photo objects after the forEach
cleanupAllImageUrls(photos) == [i \in 1..Len(photos) |-> revokedPhoto(photos[i])]

\* the history after an assignment to the photo objects refs: Change is what
\* the assignment makes of a photo; it reaches the photos of an entry that
\* are these objects, and a deep copy holds none of them
InPlace(h, refs, Change(_)) ==
    [n \in 1..Len(h) |->
        [h[n] EXCEPT !.photos =
            [i \in 1..Len(@) |->
                IF @[i].ref # 0 /\ @[i].ref \in refs THEN Change(@[i]) ELSE @[i]]]]

\* the store at the beginning of a step: nothing notified yet
Store == [state |-> state, history |-> history, notified |-> <<>>]

\* not a call of the store
NoRet == [op |-> "none", value |-> FALSE]

FreshRun == [n |-> 0, s |-> 0, u |-> 0, clean |-> TRUE]

\* ------------------------------------------------------------------------
\* The ingest activations (filled in below)
\* ------------------------------------------------------------------------
NoPhoto ==
    [id |-> 0, url |-> Undefined, location |-> <<>>, comment |-> <<>>,
     thumbnail |-> Undefined, ref |-> 0]

NoReason == [code |-> "", at |-> ""]

\* the promise of a processFileAsync call that has not been made
Unstarted == [stage |-> "unstarted", reason |-> NoReason, value |-> NoPhoto]

IdleCall ==
    [status |-> "idle", files |-> <<>>, i |-> 0, promises |-> <<>>,
     processedCount |-> 0, errorCount |-> 0, totalFiles |-> 0, settled |-> <<>>]

\* no component has been driven alone
NoProbe == [op |-> "none"]

AppIdle ==
    /\ calls = [c \in 1..MaxCalls |-> IdleCall]
    /\ used = [files |-> 0, ops |-> 0, faults |-> 0, thumbs |-> 0]
    /\ thumbs = {}
    /\ imageCache = <<>>
    /\ nextId = 1
    /\ notification = ""
    /\ probe = NoProbe

\* ------------------------------------------------------------------------
\* The bare store: a StateManager driven through its interface
\* ------------------------------------------------------------------------
Callbacks == {"cb1"}

\* the font sizes the store is driven through
BumpFontSize(n) == IF n >= 20 THEN 6 ELSE n + 1

StoreUpdates(st) == {[fontSize |-> BumpFontSize(st.fontSize)]}

StoreInit ==
    /\ state = DEFAULT_SETTINGS
    /\ history = <<>>
    /\ observers = <<>>
    /\ notified = <<>>
    /\ ret = NoRet
    /\ run = FreshRun
    /\ AppIdle

\* subscribe(callback)
Subscribe(cb) ==
    /\ Len(observers) < MaxObservers
    /\ observers' = Append(observers, cb)
    /\ notified' = <<>>
    /\ ret' = [op |-> "subscribe", value |-> FALSE]
    /\ UNCHANGED <<state, history, run>>
    /\ UNCHANGED appVars

\* unsubscribe(callback): every registration of the callback is removed
Unsubscribe(cb) ==
    /\ \E i \in 1..Len(observers) : observers[i] = cb
    /\ observers' = SelectSeq(observers, LAMBDA obs : obs # cb)
    /\ notified' = <<>>
    /\ ret' = [op |-> "unsubscribe", value |-> FALSE]
    /\ UNCHANGED <<state, history, run>>
    /\ UNCHANGED appVars

\* setState(updates, saveToHistory)
SetState(updates, save) ==
    /\ save \/ (run.s < MaxSilent /\ run.clean /\ run.u = 0 /\ run.n % SilentEvery = 0)
    /\ run.clean => run.n < MaxUpdates
    /\ LET sm == setState(Store, observers, updates, save)
       IN  /\ state' = sm.state
           /\ history' = sm.history
           /\ notified' = sm.notified
    /\ ret' = [op |-> "setState", value |-> save]
    /\ run' = IF ~save THEN [run EXCEPT !.s = @ + 1]
              ELSE IF run.clean /\ run.u = 0 THEN [run EXCEPT !.n = @ + 1]
              ELSE [run EXCEPT !.n = 0, !.u = 0, !.clean = FALSE]
    /\ UNCHANGED observers
    /\ UNCHANGED appVars

\* undo()
Undo ==
    /\ LET r == undo(Store, observers)
       IN  /\ state' = r.sm.state
           /\ history' = r.sm.history
           /\ notified' = r.sm.notified
           /\ ret' = [op |-> "undo", value |-> r.value]
           /\ run' = IF r.value /\ run.clean THEN [run EXCEPT !.u = @ + 1] ELSE run
    /\ UNCHANGED observers
    /\ UNCHANGED appVars

\* reset()
Reset ==
    /\ LET sm == reset(Store, observers)
       IN  /\ state' = sm.state
           /\ history' = sm.history
           /\ notified' = sm.notified
    /\ ret' = [op |-> "reset", value |-> FALSE]
    /\ run' = [FreshRun EXCEPT !.s = run.s]
    /\ UNCHANGED observers
    /\ UNCHANGED appVars

StoreNext ==
    \/ \E cb \in Callbacks : Subscribe(cb)
    \/ \E u \in StoreUpdates(state), save \in BOOLEAN : SetState(u, save)
    \/ Undo
    \/ Reset

SpecStore == StoreInit /\ [][StoreNext]_vars

\* ------------------------------------------------------------------------
\* The store driven through a recorded update and the undos after it
\* ------------------------------------------------------------------------
\* the value of one decimal digit, -1 for any other character
DigitValue(ch) ==
    CASE ch = "0" -> 0 [] ch = "1" -> 1 [] ch = "2" -> 2 [] ch = "3" -> 3
      [] ch = "4" -> 4 [] ch = "5" -> 5 [] ch = "6" -> 6 [] ch = "7" -> 7
      [] ch = "8" -> 8 [] ch = "9" -> 9 [] OTHER -> -1

\* the number of the leading digits of text, read after the digits acc;
\* NaN when there is none
RECURSIVE parseDigits(_, _, _)
parseDigits(text, acc, seen) ==
    IF text = <<>> \/ DigitValue(Head(text)) < 0
    THEN IF seen THEN acc ELSE NaN
    ELSE parseDigits(Tail(text), 10 * acc + DigitValue(Head(text)), TRUE)

\* parseInt(text, 10) of a text without leading white space
parseInt(text) ==
    IF text # <<>> /\ Head(text) = "-"
    THEN LET n == parseDigits(Tail(text), 0, FALSE) IN IF n = NaN THEN NaN ELSE 0 - n
    ELSE IF text # <<>> /\ Head(text) = "+" THEN parseDigits(Tail(text), 0, FALSE)
    ELSE parseDigits(text, 0, FALSE)

\* what the user leaves in the font size field
FontSizeTexts == {<<>>, <<"1", "2">>}

\* the recorded updates the store is driven with: the site name typed, the
\* font size field changed
RoundUpdates ==
    {[siteName |-> <<"A">>]} \cup {[fontSize |-> parseInt(t)] : t \in FontSizeTexts}

\* setState(updates) with the call noted: the state and the length of the
\* history it found, and whether it ended with an exception
RoundSetState(updates) ==
    /\ run.n < MaxRound
    /\ LET sm == setState(Store, observers, updates, TRUE)
       IN  /\ state' = sm.state
           /\ history' = sm.history
           /\ notified' = sm.notified
    /\ ret' = [op |-> "setState", value |-> TRUE]
    /\ run' = [run EXCEPT !.n = @ + 1]
    /\ probe' = [op |-> "setState", before |-> state, updates |-> updates,
                 fresh |-> history = <<>>, hlen |-> Len(history), undos |-> 0,
                 error |-> notifyThrows(observers, state, Spread(state, updates))]
    /\ UNCHANGED <<observers, calls, used, thumbs, imageCache, nextId, notification>>

\* undo() after a noted setState: at most two in a row
RoundUndo ==
    /\ probe.op \in {"setState", "undo"}
    /\ probe.undos < 2
    /\ LET r == undo(Store, observers)
       IN  /\ state' = r.sm.state
           /\ history' = r.sm.history
           /\ notified' = r.sm.notified
           /\ ret' = [op |-> "undo", value |-> r.value]
    /\ probe' = [probe EXCEPT
                    !.op = "undo", !.undos = @ + 1, !.hlen = Len(history),
                    !.error = /\ history # <<>>
                              /\ notifyThrows(observers, state, history[Len(history)])]
    /\ UNCHANGED <<observers, run, calls, used, thumbs, imageCache, nextId, notification>>

\* reset() with the call noted
RoundReset ==
    /\ probe.op \in {"setState", "undo"}
    /\ LET sm == reset(Store, observers)
       IN  /\ state' = sm.state
           /\ history' = sm.history
           /\ notified' = sm.notified
    /\ ret' = [op |-> "reset", value |-> FALSE]
    /\ probe' = [op |-> "reset", before |-> state, updates |-> DEFAULT_SETTINGS,
                 fresh |-> history = <<>>, hlen |-> Len(history), undos |-> 2,
                 error |-> notifyThrows(observers, state, DEFAULT_SETTINGS)]
    /\ UNCHANGED <<observers, run, calls, used, thumbs, imageCache, nextId, notification>>

RoundNext ==
    \/ \E u \in RoundUpdates : RoundSetState(u)
    \/ RoundUndo

SpecRound == StoreInit /\ [][RoundNext]_vars

\* The store with subscribers, one of which throws
NotifyCallbacks == {"cb1", "cbThrows"}

NotifyNext ==
    \/ \E cb \in NotifyCallbacks : Subscribe(cb)
    \/ \E cb \in NotifyCallbacks : Unsubscribe(cb)
    \/ \E u \in RoundUpdates : RoundSetState(u)
    \/ RoundUndo
    \/ RoundReset

SpecNotify == StoreInit /\ [][NotifyNext]_vars

\* ------------------------------------------------------------------------
\* The store with a subscriber that calls setState from its callback
\* ------------------------------------------------------------------------
\* "cbSets" calls setState({ orientation: 'landscape' }) from its callback
\* when the state it receives is in portrait; every other one only reads
Sets(cb, newState) == cb = "cbSets" /\ newState.orientation = "portrait"

\* setState(updates) and the forEach of notifyObservers with the store they
\* work on: a callback that calls setState runs the whole nested call, with
\* its own notifications, before the forEach reaches the next observer,
\* which is then called with the objects of the outer call
RECURSIVE notifyObserversNested(_, _, _, _)
RECURSIVE setStateNested(_, _, _)
notifyObserversNested(sm, rest, oldState, newState) ==
    IF rest = <<>> THEN sm
    ELSE The({LET cb == Head(rest)
                  called == [s EXCEPT !.notified =
                                Append(@, [cb |-> cb, newState |-> newState, oldState |-> oldState])]
                  after == IF Sets(cb, newState)
                           THEN setStateNested(called, s.obs, [orientation |-> "landscape"])
                           ELSE called
              IN  notifyObserversNested(after, Tail(rest), oldState, newState)
              : s \in {sm}})

setStateNested(sm, obs, updates) ==
    LET oldState == sm.state
        newState == Spread(sm.state, updates)
    IN  notifyObserversNested(
            [state |-> newState,
             history |-> saveToHistory(sm.history, oldState),
             notified |-> sm.notified,
             obs |-> obs],
            obs, oldState, newState)

\* the updates the store with the nested calls is driven with
NestedUpdates ==
    {[siteName |-> <<"A">>], [orientation |-> "portrait"], [orientation |-> "landscape"]}

\* setState(updates) on the store whose subscribers may call setState
NestedSetState(updates) ==
    /\ run.n < MaxRound
    /\ \E sm \in {setStateNested(Store, observers, updates)} :
          /\ state' = sm.state
          /\ history' = sm.history
          /\ notified' = sm.notified
    /\ ret' = [op |-> "setState", value |-> TRUE]
    /\ run' = [run EXCEPT !.n = @ + 1]
    /\ probe' = [op |-> "setState", before |-> state, updates |-> updates]
    /\ UNCHANGED <<observers, calls, used, thumbs, imageCache, nextId, notification>>

NestedNext ==
    \/ \E cb \in {"cb1", "cbSets"} : Subscribe(cb)
    \/ \E cb \in {"cb1", "cbSets"} : Unsubscribe(cb)
    \/ \E u \in NestedUpdates : NestedSetState(u)

SpecNested == StoreInit /\ [][NestedNext]_vars

\* The store with subscribers, one of which assigns to what it receives
AliasCallbacks == {"cb1", "cbAssigns"}

AliasNext ==
    \/ \E cb \in AliasCallbacks : Subscribe(cb)
    \/ \E u \in RoundUpdates : RoundSetState(u)

SpecAlias == StoreInit /\ [][AliasNext]_vars

\* ------------------------------------------------------------------------
\* The MemoryManager driven alone
\* ------------------------------------------------------------------------
\* the calls noted so far: the number of new keys added, and whether nothing
\* but additions of new keys was made since the cache was empty
CacheProbe ==
    IF probe.op = "cache" THEN probe
    ELSE [op |-> "cache", last |-> "none", pure |-> TRUE, inserted |-> 0]

\* the data cached for a photo; version tells a later call from the first
CacheData(id, version) ==
    [thumbnail |-> DataImage(0 - id - version), original |-> DataImage(id)]

\* the keys present a call other than a new addition is made with: the
\* oldest and the newest
CacheEnds == {imageCache[i].key : i \in {1, Len(imageCache)} \cap (1..Len(imageCache))}

\* addToCache(id, data) with a key never used before
CacheAddNew ==
    /\ nextId <= MaxKeys
    /\ imageCache' = addToCache(imageCache, nextId, CacheData(nextId, 0))
    /\ nextId' = nextId + 1
    /\ probe' = [CacheProbe EXCEPT !.last = "add", !.inserted = @ + 1]
    /\ UNCHANGED <<storeVars, calls, used, thumbs, notification>>

\* addToCache(id, data) with a key that is present
CacheAddAgain(id) ==
    /\ used.ops < MaxCacheOps
    /\ imageCache' = addToCache(imageCache, id, CacheData(id, 1000))
    /\ used' = [used EXCEPT !.ops = @ + 1]
    /\ probe' = [CacheProbe EXCEPT !.last = "again", !.pure = FALSE]
    /\ UNCHANGED <<storeVars, calls, thumbs, nextId, notification>>

\* removeFromCache(id)
CacheRemove(id) ==
    /\ used.ops < MaxCacheOps
    /\ imageCache' = removeFromCache(imageCache, id)
    /\ used' = [used EXCEPT !.ops = @ + 1]
    /\ probe' = [CacheProbe EXCEPT !.last = "remove", !.pure = FALSE]
    /\ UNCHANGED <<storeVars, calls, thumbs, nextId, notification>>

\* revokeImageUrl(id, photo) for a photo held by no one else
CacheRevoke(id) ==
    /\ used.ops < MaxCacheOps
    /\ imageCache' = removeFromCache(imageCache, id)
    /\ used' = [used EXCEPT !.ops = @ + 1]
    /\ probe' = [CacheProbe EXCEPT !.last = "revoke", !.pure = FALSE]
    /\ UNCHANGED <<storeVars, calls, thumbs, nextId, notification>>

\* cleanupAllImageUrls([]): imageCache.clear()
CacheClear ==
    /\ used.ops < MaxCacheOps
    /\ imageCache' = <<>>
    /\ used' = [used EXCEPT !.ops = @ + 1]
    /\ probe' = [CacheProbe EXCEPT !.last = "clear", !.pure = FALSE]
    /\ UNCHANGED <<storeVars, calls, thumbs, nextId, notification>>

CacheNext ==
    \/ CacheAddNew
    \/ \E id \in CacheEnds : CacheAddAgain(id)
    \/ \E id \in CacheEnds : CacheRemove(id)
    \/ \E id \in CacheEnds : CacheRevoke(id)
    \/ CacheClear

SpecCache == StoreInit /\ [][CacheNext]_vars

\* ------------------------------------------------------------------------
\* File validator (file-validator.js)
\* ------------------------------------------------------------------------
\* bytes[i] of a Uint8Array: undefined (here -1) beyond its end
byteAt(bytes, i) == IF i < Len(bytes) THEN bytes[i + 1] ELSE -1

\* validateFileHeader: the value the promise resolves with when the read of
\* the first 12 bytes succeeds
validateFileHeader(bytes) ==
    \/ (byteAt(bytes, 0) = 255 /\ byteAt(bytes, 1) = 216 /\ byteAt(bytes, 2) = 255)
    \/ (byteAt(bytes, 0) = 137 /\ byteAt(bytes, 1) = 80 /\ byteAt(bytes, 2) = 78 /\ byteAt(bytes, 3) = 71 /\
        byteAt(bytes, 4) = 13 /\ byteAt(bytes, 5) = 10 /\ byteAt(bytes, 6) = 26 /\ byteAt(bytes, 7) = 10)
    \/ (byteAt(bytes, 0) = 71 /\ byteAt(bytes, 1) = 73 /\ byteAt(bytes, 2) = 70 /\ byteAt(bytes, 3) = 56)
    \/ (byteAt(bytes, 0) = 82 /\ byteAt(bytes, 1) = 73 /\ byteAt(bytes, 2) = 70 /\ byteAt(bytes, 3) = 70 /\
        byteAt(bytes, 8) = 87 /\ byteAt(bytes, 9) = 69 /\ byteAt(bytes, 10) = 66 /\ byteAt(bytes, 11) = 80)

\* validateImageFile up to its first await: the error thrown by the size and
\* type checks, NoReason when the header read is started
validateImageFileSync(file) ==
    IF file.size > MAX_FILE_SIZE THEN [code |-> "FILE_TOO_LARGE", at |-> "size"]
    ELSE IF file.size = 0 THEN [code |-> "INVALID_FILE_TYPE", at |-> "empty"]
    ELSE IF file.type \notin ALLOWED_FILE_TYPES THEN [code |-> "INVALID_FILE_TYPE", at |-> "type"]
    ELSE NoReason

\* validateImageFile after the header read: the error thrown, NoReason when
\* the file is accepted; readOk is whether the FileReader fired onload
validateImageFileHeader(file, readOk) ==
    IF ~readOk THEN [code |-> "INVALID_FILE_TYPE", at |-> "verify"]
    ELSE IF ~validateFileHeader(file.head) THEN [code |-> "INVALID_FILE_TYPE", at |-> "header"]
    ELSE NoReason

\* ------------------------------------------------------------------------
\* Files
\* ------------------------------------------------------------------------
JpegHead == <<255, 216, 255, 224, 0, 16, 74, 70, 73, 70, 0, 1>>
PngHead == <<137, 80, 78, 71, 13, 10, 26, 10, 0, 0, 0, 13>>
GifHead == <<71, 73, 70, 56, 57, 97, 1, 0, 1, 0, 128, 0>>
WebpHead == <<82, 73, 70, 70, 36, 0, 0, 0, 87, 69, 66, 80>>
WaveHead == <<82, 73, 70, 70, 36, 0, 0, 0, 87, 65, 86, 69>>
PdfHead == <<37, 80, 68, 70, 45, 49, 46, 52, 10, 37, 226, 227>>
BadPngHead == <<137, 80, 78, 71, 13, 10, 26, 11, 0, 0, 0, 13>>

Heads == {JpegHead, PngHead, GifHead, WebpHead, WaveHead, PdfHead, BadPngHead}
Types == ALLOWED_FILE_TYPES \cup {"image/bmp", "application/pdf", ""}
Sizes == {0, 2, 3, 1000, MAX_FILE_SIZE, MAX_FILE_SIZE + 1}
Dims == {<<800, 600>>, <<0, 0>>}

\* a file of the given size, declared type and content; head is what
\* file.slice(0, 12) reads
MakeFile(size, type, content, dim) ==
    [size |-> size, type |-> type, head |-> SubSeq(content, 1, Min(12, size)),
     w |-> dim[1], h |-> dim[2]]

AllFiles == {MakeFile(sz, ty, hd, d) : sz \in Sizes, ty \in Types, hd \in Heads, d \in Dims}

GoodJpeg == MakeFile(1000, "image/jpeg", JpegHead, <<800, 600>>)
WaveAsWebp == MakeFile(1000, "image/webp", WaveHead, <<800, 600>>)
TooLarge == MakeFile(MAX_FILE_SIZE + 1, "image/png", PngHead, <<800, 600>>)

\* the files dropped on the application
AppFiles == {GoodJpeg, WaveAsWebp, TooLarge}

\* the sequences of 1..n elements of S
SeqsUpTo(S, n) == UNION {[1..k -> S] : k \in 1..n}

\* ------------------------------------------------------------------------
\* Ingestion (print-script.js)
\* ------------------------------------------------------------------------
Rejected(reason) == [stage |-> "rejected", reason |-> reason, value |-> NoPhoto]
Fulfilled(photo) == [stage |-> "fulfilled", reason |-> NoReason, value |-> photo]
Pending(stage) == [stage |-> stage, reason |-> NoReason, value |-> NoPhoto]

IsSettled(p) == p.stage \in {"fulfilled", "rejected"}
InFlight(p) == p.stage \in {"validating", "reading", "decoding"}

\* the indices of the batch fileArray.slice(i, i + MAX_CONCURRENT_UPLOADS)
BatchOf(call) == (call.i + 1)..Min(call.i + MAX_CONCURRENT_UPLOADS, Len(call.files))

\* processFileAsync(file) up to its first suspension
processFileAsyncStart(file) ==
    LET err == validateImageFileSync(file)
    IN  IF err # NoReason THEN Rejected(err) ELSE Pending("validating")

\* batch.map(file => processFileAsync(file)): the promises settled on the
\* spot are entered in call.settled in the order of the batch
RECURSIVE MarkSettled(_, _, _)
MarkSettled(call, k, last) ==
    IF k > last THEN call
    ELSE MarkSettled(IF IsSettled(call.promises[k])
                     THEN [call EXCEPT !.settled = Append(@, k)]
                     ELSE call, k + 1, last)

StartBatch(call) ==
    LET started == [call EXCEPT !.promises =
                       [k \in 1..Len(call.files) |->
                           IF k \in BatchOf(call)
                           THEN processFileAsyncStart(call.files[k])
                           ELSE call.promises[k]]]
    IN  MarkSettled(started, call.i + 1, Min(call.i + MAX_CONCURRENT_UPLOADS, Len(call.files)))

\* the batch awaited with Promise.race instead of Promise.allSettled
BatchSettledAny(call) == \E k \in BatchOf(call) : IsSettled(call.promises[k])

\* Promise.allSettled(batchPromises) has resolved
BatchSettled(call) == \A k \in BatchOf(call) : IsSettled(call.promises[k])

\* A world is what one step of handleFilesAsync works on:
\* [call, sm, thumbs, notification].

\* results.forEach(...) giving up at the first rejected result
RECURSIVE ForEachResultFailFast(_, _, _, _)
ForEachResultFailFast(w0, obs, k, last) ==
    IF k > last THEN w0
    ELSE The({LET result == w.call.promises[k]
                  photoData == result.value
              IN  IF result.stage = "fulfilled"
                  THEN ForEachResultFailFast(
                         [w EXCEPT !.thumbs = @ \cup {photoData},
                                   !.sm = setPhotos(w.sm, obs, Append(w.sm.state.photos, photoData)),
                                   !.call.processedCount = @ + 1],
                         obs, k + 1, last)
                  ELSE [w EXCEPT !.call.errorCount = @ + 1]
              : w \in {w0}})

\* the records of the files in order appended one by one
RECURSIVE AppendInOrder(_, _, _)
AppendInOrder(w0, obs, order) ==
    IF order = <<>> THEN w0
    ELSE The({LET result == w.call.promises[Head(order)]
                  photoData == result.value
              IN  IF result.stage = "fulfilled"
                  THEN AppendInOrder(
                         [w EXCEPT !.thumbs = @ \cup {photoData},
                                   !.sm = setPhotos(w.sm, obs, Append(w.sm.state.photos, photoData)),
                                   !.call.processedCount = @ + 1],
                         obs, Tail(order))
                  ELSE AppendInOrder([w EXCEPT !.call.errorCount = @ + 1], obs, Tail(order))
              : w \in {w0}})

\* the results recorded in the order in which the promises settled
ForEachResultAsSettled(w0, obs, k, last) ==
    AppendInOrder(w0, obs, SelectSeq(w0.call.settled, LAMBDA x : k <= x /\ x <= last))

\* results.forEach(...) from index k of the batch on
\* results.forEach(...) appending to the records the call itself has
\* accepted so far, not to the photos current at that moment
RECURSIVE ForEachResultOwnList(_, _, _, _)
ForEachResultOwnList(w0, obs, k, last) ==
    IF k > last THEN w0
    ELSE The({LET result == w.call.promises[k]
                  photoData == result.value
                  earlier == SelectSeq(SubSeq(w.call.promises, 1, k - 1),
                                       LAMBDA p : p.stage = "fulfilled")
                  own == [i \in 1..Len(earlier) |-> earlier[i].value]
              IN  IF result.stage = "fulfilled"
                  THEN ForEachResultOwnList(
                         [w EXCEPT !.thumbs = @ \cup {photoData},
                                   !.sm = setPhotos(w.sm, obs, Append(own, photoData)),
                                   !.call.processedCount = @ + 1],
                         obs, k + 1, last)
                  ELSE ForEachResultOwnList([w EXCEPT !.call.errorCount = @ + 1], obs, k + 1, last)
              : w \in {w0}})

RECURSIVE ForEachResult(_, _, _, _)
ForEachResult(w0, obs, k, last) ==
    IF k > last THEN w0
    ELSE The({LET result == w.call.promises[k]
                  photoData == result.value
              IN  IF result.stage = "fulfilled"
                  THEN ForEachResult(
                         [w EXCEPT !.thumbs = @ \cup {photoData},
                                   !.sm = setPhotos(w.sm, obs, Append(w.sm.state.photos, photoData)),
                                   !.call.processedCount = @ + 1],
                         obs, k + 1, last)
                  ELSE ForEachResult([w EXCEPT !.call.errorCount = @ + 1], obs, k + 1, last)
              : w \in {w0}})

\* the notifications at the end of handleFilesAsync
CompletionNotice(call) ==
    IF call.errorCount > 0 THEN "errors"
    ELSE IF call.processedCount > 0 THEN "added"
    ELSE ""

\* handleFilesAsync from the await of Promise.allSettled on: nothing happens
\* while a promise of the batch is pending; otherwise the results are
\* recorded and the next batch is started, until a batch has a pending promise
\* or the files are exhausted
RECURSIVE Resume(_, _)
Resume(w0, obs) ==
    The({IF ~BatchSettled(w.call) THEN w
         ELSE LET last == Min(w.call.i + MAX_CONCURRENT_UPLOADS, Len(w.call.files))
                  i == w.call.i + MAX_CONCURRENT_UPLOADS
              IN  The({IF i < Len(w.call.files)
                       THEN Resume([done EXCEPT !.call = StartBatch([done.call EXCEPT !.i = i])], obs)
                       ELSE [done EXCEPT !.call.status = "done",
                                         !.call.i = i,
                                         !.notification = CompletionNotice(done.call)]
                       : done \in {ForEachResult(w, obs, w.call.i + 1, last)}})
         : w \in {w0}})

World(c) == [call |-> calls[c], sm |-> Store, thumbs |-> thumbs, notification |-> notification]

\* the variables after a step that leaves the world w for call c
Commit(c, w) ==
    /\ calls' = [calls EXCEPT ![c] = w.call]
    /\ state' = w.sm.state
    /\ history' = w.sm.history
    /\ notified' = w.sm.notified
    /\ thumbs' = w.thumbs
    /\ notification' = w.notification
    /\ ret' = NoRet
    /\ UNCHANGED <<observers, run, imageCache, probe>>

NewCall(files) ==
    [status |-> "running", files |-> files, i |-> 0,
     promises |-> [k \in 1..Len(files) |-> Unstarted],
     processedCount |-> 0, errorCount |-> 0, totalFiles |-> Len(files), settled |-> <<>>]

\* handleFilesAsync without the check of the number of files
handleFilesAsyncNoLimit(c, files) ==
    \E w \in {Resume([World(c) EXCEPT !.call = StartBatch(NewCall(files))], observers)} :
        Commit(c, w)

\* handleFilesAsync(files), from a drop or a file selection, up to its first
\* suspension
handleFilesAsync(c, files) ==
    IF Len(state.photos) + Len(files) > MAX_FILE_COUNT
    THEN /\ notification' = "TOO_MANY_FILES"
         /\ ret' = NoRet
         /\ notified' = <<>>
         /\ UNCHANGED <<state, history, observers, run, calls, thumbs, imageCache, probe>>
    ELSE \E w \in {Resume([World(c) EXCEPT !.call = StartBatch(NewCall(files))], observers)} :
            Commit(c, w)

Drop(c, files) ==
    /\ calls[c].status = "idle"
    /\ \A d \in 1..(c - 1) : calls[d].status # "idle"
    /\ used.files + Len(files) <= MaxFiles
    /\ handleFilesAsync(c, files)
    /\ used' = IF Len(state.photos) + Len(files) > MAX_FILE_COUNT
               THEN used ELSE [used EXCEPT !.files = @ + Len(files)]
    /\ UNCHANGED nextId

\* a promise of call c settles or moves on: the rest of handleFilesAsync runs
\* in the same turn when this was the last pending promise of the batch
Advance(c, k, p) ==
    \E w \in {Resume([World(c) EXCEPT !.call.promises[k] = p,
                                       !.call.settled = IF IsSettled(p) THEN Append(@, k) ELSE @],
                      observers)} :
        Commit(c, w)

Fault == used.faults < MaxFaults
CountFault == used' = [used EXCEPT !.faults = @ + 1]

\* validateFileHeader: reader.onload
HeaderLoaded(c, k) ==
    /\ calls[c].status = "running"
    /\ calls[c].promises[k].stage = "validating"
    /\ LET err == validateImageFileHeader(calls[c].files[k], TRUE)
       IN  Advance(c, k, IF err # NoReason THEN Rejected(err) ELSE Pending("reading"))
    /\ UNCHANGED <<used, nextId>>

\* validateFileHeader: reader.onerror
HeaderError(c, k) ==
    /\ calls[c].status = "running"
    /\ calls[c].promises[k].stage = "validating"
    /\ Fault
    /\ Advance(c, k, Rejected(validateImageFileHeader(calls[c].files[k], FALSE)))
    /\ CountFault
    /\ UNCHANGED nextId

\* processFileAsync: reader.onload, compressImageAsync sets img.src
ReadLoaded(c, k) ==
    /\ calls[c].status = "running"
    /\ calls[c].promises[k].stage = "reading"
    /\ Advance(c, k, Pending("decoding"))
    /\ UNCHANGED <<used, nextId>>

\* processFileAsync: reader.onerror
ReadError(c, k) ==
    /\ calls[c].status = "running"
    /\ calls[c].promises[k].stage = "reading"
    /\ Fault
    /\ Advance(c, k, Rejected([code |-> "", at |-> "read"]))
    /\ CountFault
    /\ UNCHANGED nextId

\* the photo object processFileAsync resolves with
NewPhoto(id, file) ==
    [id |-> id, url |-> DataImage(id), location |-> <<>>, comment |-> <<>>,
     thumbnail |-> Undefined, ref |-> id]

\* compressImageAsync: img.onload; encoded is whether the canvas delivers a
\* data URL
DecodeLoaded(c, k, encoded) ==
    /\ calls[c].status = "running"
    /\ calls[c].promises[k].stage = "decoding"
    /\ LET file == calls[c].files[k]
       IN  IF file.w = 0 \/ file.h = 0
           THEN /\ encoded
                /\ Advance(c, k, Rejected([code |-> "", at |-> "image"]))
                /\ UNCHANGED <<used, nextId>>
           ELSE IF ~encoded
           THEN /\ Fault
                /\ Advance(c, k, Rejected([code |-> "", at |-> "canvas"]))
                /\ CountFault
                /\ UNCHANGED nextId
           ELSE /\ Advance(c, k, Fulfilled(NewPhoto(nextId, file)))
                /\ nextId' = nextId + 1
                /\ UNCHANGED used

\* img.onerror that neither resolves nor rejects the promise
DecodeErrorLost(c, k) ==
    /\ calls[c].status = "running"
    /\ calls[c].promises[k].stage = "decoding"
    /\ Fault
    /\ Advance(c, k, Pending("lost"))
    /\ CountFault
    /\ UNCHANGED nextId

\* compressImageAsync: img.onerror
DecodeError(c, k) ==
    /\ calls[c].status = "running"
    /\ calls[c].promises[k].stage = "decoding"
    /\ Fault
    /\ Advance(c, k, Rejected([code |-> "", at |-> "decode"]))
    /\ CountFault
    /\ UNCHANGED nextId

\* createThumbnail: img.onload; the callback of handleFilesAsync writes the
\* thumbnail into the photo object and enters it in the cache
ThumbLoaded(t) ==
    /\ t \in thumbs
    /\ used.thumbs < MaxThumbs
    /\ LET thumbnailUrl == DataImage(0 - t.id)
       IN  /\ state' = [state EXCEPT !.photos =
                          [i \in 1..Len(@) |->
                              IF @[i].ref = t.ref THEN [@[i] EXCEPT !.thumbnail = thumbnailUrl]
                              ELSE @[i]]]
           /\ history' = InPlace(history, {t.ref},
                                 LAMBDA q : [q EXCEPT !.thumbnail = thumbnailUrl])
           /\ imageCache' = addToCache(imageCache, t.id,
                                       [thumbnail |-> thumbnailUrl, original |-> t.url])
    /\ thumbs' = thumbs \ {t}
    /\ used' = [used EXCEPT !.thumbs = @ + 1]
    /\ notified' = <<>>
    /\ ret' = NoRet
    /\ UNCHANGED <<observers, run, calls, nextId, notification, probe>>

\* createThumbnail failing with the record taken out of the photos
ThumbErrorDrops(t) ==
    /\ t \in thumbs
    /\ used.thumbs < MaxThumbs
    /\ state' = [state EXCEPT !.photos = SelectSeq(@, LAMBDA q : q.id # t.id)]
    /\ thumbs' = thumbs \ {t}
    /\ used' = [used EXCEPT !.thumbs = @ + 1]
    /\ notification' = "thumbnail"
    /\ notified' = <<>>
    /\ ret' = NoRet
    /\ UNCHANGED <<history, observers, run, calls, imageCache, nextId, probe>>

\* createThumbnail: img.onerror, or the canvas throws
ThumbError(t) ==
    /\ t \in thumbs
    /\ used.thumbs < MaxThumbs
    /\ thumbs' = thumbs \ {t}
    /\ used' = [used EXCEPT !.thumbs = @ + 1]
    /\ notification' = "thumbnail"
    /\ notified' = <<>>
    /\ ret' = NoRet
    /\ UNCHANGED <<state, history, observers, run, calls, imageCache, nextId, probe>>

\* Array.prototype.find(p => p.id === photoId): the index, 0 when none
FindIndex(photos, photoId) ==
    IF \E i \in 1..Len(photos) : photos[i].id = photoId
    THEN CHOOSE i \in 1..Len(photos) :
            /\ photos[i].id = photoId
            /\ \A j \in 1..(i - 1) : photos[j].id # photoId
    ELSE 0

\* the remove buttons the model presses: the first and the last of the list
RemoveIdx(photos) == {1, Len(photos)} \cap (1..Len(photos))

\* click on the remove button of the photo photoId, confirmed
Remove(photoId) ==
    /\ used.ops < MaxUserOps
    /\ LET photos == state.photos
           at == FindIndex(photos, photoId)
           released == [i \in 1..Len(photos) |->
                           IF i = at THEN revokedPhoto(photos[i]) ELSE photos[i]]
           updatedPhotos == SelectSeq(released, LAMBDA q : q.id # photoId)
           sm == setPhotos([Store EXCEPT
                               !.state.photos = released,
                               !.history = InPlace(@, {photos[at].ref}, revokedPhoto)],
                           observers, updatedPhotos)
       IN  /\ at # 0
           /\ state' = sm.state
           /\ history' = sm.history
           /\ notified' = sm.notified
           /\ thumbs' = {IF t.ref = photos[at].ref /\ t.ref # 0 THEN revokedPhoto(t) ELSE t :
                            t \in thumbs}
    /\ imageCache' = removeFromCache(imageCache, photoId)
    /\ used' = [used EXCEPT !.ops = @ + 1]
    /\ notification' = "removed"
    /\ ret' = NoRet
    /\ UNCHANGED <<observers, run, calls, nextId, probe>>

\* sanitizeText: the characters div.innerHTML escapes
EscapeChar(ch) ==
    IF ch = "&" THEN <<"&", "a", "m", "p", ";">>
    ELSE IF ch = "<" THEN <<"&", "l", "t", ";">>
    ELSE IF ch = ">" THEN <<"&", "g", "t", ";">>
    ELSE <<ch>>

\* each character escaped, the text being taken by halves
RECURSIVE sanitizeText(_)
sanitizeText(text) ==
    The({IF t = <<>> THEN <<>>
         ELSE IF Len(t) = 1 THEN EscapeChar(t[1])
         ELSE LET half == Len(t) \div 2
              IN  sanitizeText(SubSeq(t, 1, half)) \o sanitizeText(SubSeq(t, half + 1, Len(t)))
         : t \in {text}})

\* String.prototype.substring(0, n)
substring(text, n) == SubSeq(text, 1, Min(n, Len(text)))

\* Number(x) || d
NumberOr(x, d) == IF x \in {0, NaN, NullNumber} THEN d ELSE x

\* value if it is one of allowed, else the default
OneOf(value, allowed, default) == IF value \in allowed THEN value ELSE default

MAX_SITE_NAME_LENGTH == 50
MAX_PERSON_NAME_LENGTH == 30
MAX_LOCATION_LENGTH == 100
MAX_COMMENT_LENGTH == 500

\* the photo entry the load handler makes of a stored one; fresh is the value
\* of Date.now() + Math.random()
sanitizedPhoto(photo, fresh) ==
    [id |-> NumberOr(photo.id, fresh),
     url |-> IF startsWithDataImage(photo.url) THEN photo.url ELSE [pfx |-> "", body |-> 0],
     location |-> substring(sanitizeText(photo.location), MAX_LOCATION_LENGTH),
     comment |-> substring(sanitizeText(photo.comment), MAX_COMMENT_LENGTH),
     thumbnail |-> Undefined,
     ref |-> 0]

\* sanitizedState of the load handler
sanitizedState(loadedState, fresh) ==
    [siteName |-> sanitizeText(loadedState.siteName),
     personName |-> sanitizeText(loadedState.personName),
     date |-> loadedState.date,
     photosPerPage |-> NumberOr(loadedState.photosPerPage, 4),
     orientation |-> OneOf(loadedState.orientation, {"portrait", "landscape"}, "portrait"),
     fontFamily |-> OneOf(loadedState.fontFamily, {"sans-serif", "serif"}, "sans-serif"),
     fontSize |-> Min(Max(NumberOr(loadedState.fontSize, 10), 6), 20),
     fontWeight |-> OneOf(loadedState.fontWeight, {"normal", "bold"}, "normal"),
     imageQuality |-> OneOf(loadedState.imageQuality, {"high", "highest"}, "high"),
     imageDisplayMode |-> OneOf(loadedState.imageDisplayMode, {"trim", "fit"}, "trim"),
     photos |-> LET sliced == SubSeq(loadedState.photos, 1,
                                     Min(MAX_FILE_COUNT, Len(loadedState.photos)))
                    mapped == [i \in 1..Len(sliced) |-> sanitizedPhoto(sliced[i], fresh + i - 1)]
                IN  SelectSeq(mapped, LAMBDA q : Truthy(q.url)),
     zoomLevel |-> NumberOr(loadedState.zoomLevel, 1)]

\* a state file with n photos, as the save button writes it
SavedFile(n) ==
    [DEFAULT_SETTINGS EXCEPT
        !.siteName = <<"A", "&">>,
        !.date = "2026-10-01",
        !.photos = [i \in 1..n |->
                       [id |-> 1000 + i, url |-> DataImage(1000 + i),
                        location |-> <<>>, comment |-> <<>>]]]

\* numbers of photos in the state files the model loads
LoadCounts == {MAX_FILE_COUNT - 1}

\* loadInput change, reader.onload with the parsed JSON loadedState
Load(loadedState) ==
    /\ used.ops < MaxUserOps
    /\ LET sm == setState(Store, observers, sanitizedState(loadedState, nextId), TRUE)
       IN  /\ state' = sm.state
           /\ history' = sm.history
           /\ notified' = sm.notified
    /\ nextId' = nextId + Min(MAX_FILE_COUNT, Len(loadedState.photos))
    /\ used' = [used EXCEPT !.ops = @ + 1]
    /\ notification' = "loaded"
    /\ ret' = NoRet
    /\ UNCHANGED <<observers, run, calls, thumbs, imageCache, probe>>

\* ------------------------------------------------------------------------
\* Layout (print-script.js): chunkArray, getGridLayout
\* ------------------------------------------------------------------------
\* the index Array.prototype.slice makes of an argument: a negative one
\* counts from the end, and the result stays within 0..length
sliceIndex(len, x) == IF x < 0 THEN Max(len + x, 0) ELSE Min(x, len)

\* arr.slice(start, end), arr[0] being the first element
slice(arr, start, end) ==
    SubSeq(arr, sliceIndex(Len(arr), start) + 1, sliceIndex(Len(arr), end))

\* the loop of chunkArray with arr.slice(i, size) for arr.slice(i, i + size)
RECURSIVE chunkLoopBadSlice(_, _, _, _, _)
chunkLoopBadSlice(arr, size, i, chunked, fuel) ==
    IF ~(i < Len(arr)) THEN [pages |-> chunked, returned |-> TRUE, threw |-> FALSE]
    ELSE IF fuel = 0 THEN [pages |-> chunked, returned |-> FALSE, threw |-> FALSE]
    ELSE chunkLoopBadSlice(arr, size, i + size, Append(chunked, slice(arr, i, size)), fuel - 1)

chunkArrayBadSlice(arr, size) == chunkLoopBadSlice(arr, size, 0, <<>>, MaxLoop)

\* for (let i = ...; i < arr.length; i += size) chunked.push(arr.slice(i, i + size)),
\* followed for fuel iterations: the chunks pushed, whether the loop has
\* ended and the function returned them, and whether it threw
RECURSIVE chunkLoop(_, _, _, _, _)
chunkLoop(arr, size, i, chunked, fuel) ==
    IF ~(i < Len(arr)) THEN [pages |-> chunked, returned |-> TRUE, threw |-> FALSE]
    ELSE IF fuel = 0 THEN [pages |-> chunked, returned |-> FALSE, threw |-> FALSE]
    ELSE chunkLoop(arr, size, i + size, Append(chunked, slice(arr, i, i + size)), fuel - 1)

\* chunkArray(arr, size)
chunkArray(arr, size) == chunkLoop(arr, size, 0, <<>>, MaxLoop)

\* the class 'grid-cols-c grid-rows-r'
Grid(c, r) == [cols |-> c, rows |-> r]

\* getGridLayout with the two orientations taken for each other
getGridLayoutSwapped(count, orientation) ==
    CASE count = 1 -> Grid(1, 1)
      [] count = 2 -> IF orientation = "landscape" THEN Grid(1, 2) ELSE Grid(2, 1)
      [] count = 3 -> IF orientation = "landscape" THEN Grid(1, 3) ELSE Grid(3, 1)
      [] count = 4 -> Grid(2, 2)
      [] count = 6 -> IF orientation = "landscape" THEN Grid(2, 3) ELSE Grid(3, 2)
      [] count = 8 -> IF orientation = "landscape" THEN Grid(2, 4) ELSE Grid(4, 2)
      [] OTHER -> Grid(2, 2)

\* getGridLayout(count, orientation), count being a number
getGridLayout(count, orientation) ==
    CASE count = 1 -> Grid(1, 1)
      [] count = 2 -> IF orientation = "portrait" THEN Grid(1, 2) ELSE Grid(2, 1)
      [] count = 3 -> IF orientation = "portrait" THEN Grid(1, 3) ELSE Grid(3, 1)
      [] count = 4 -> Grid(2, 2)
      [] count = 6 -> IF orientation = "portrait" THEN Grid(2, 3) ELSE Grid(3, 2)
      [] count = 8 -> IF orientation = "portrait" THEN Grid(2, 4) ELSE Grid(4, 2)
      [] OTHER -> Grid(2, 2)

\* the photo lists paginated: n photos told apart by their ids
PhotoList(n) ==
    [i \in 1..n |->
        [id |-> i, url |-> DataImage(i), location |-> <<>>, comment |-> <<>>,
         thumbnail |-> Undefined, ref |-> i]]

\* the values of photosPerPage the layout functions are called with: those
\* of the select, and others a state file can carry
PageSizes == {1, 2, 3, 4, 6, 8}
OtherSizes == {-2, -1, 0, 5, 7, 9, NaN}
Orientations == {"portrait", "landscape"}

\* a state file with two photos whose photosPerPage was edited
EditedFile(perPage) == [SavedFile(2) EXCEPT !.photosPerPage = perPage]

\* chunkArray(photos, size) called alone
Paginate(n, size) ==
    /\ probe' = [op |-> "chunkArray", arr |-> PhotoList(n), size |-> size,
                 result |-> chunkArray(PhotoList(n), size)]
    /\ UNCHANGED <<storeVars, calls, used, thumbs, imageCache, nextId, notification>>

\* renderPreview() on the state made of a loaded file: chunkArray(photos,
\* photosPerPage)
PaginateLoaded(loadedState) ==
    /\ LET loaded == sanitizedState(loadedState, nextId)
       IN  /\ loaded.photos # <<>>
           /\ probe' = [op |-> "renderPreview", arr |-> loaded.photos,
                        size |-> loaded.photosPerPage,
                        result |-> chunkArray(loaded.photos, loaded.photosPerPage)]
    /\ UNCHANGED <<storeVars, calls, used, thumbs, imageCache, nextId, notification>>

\* getGridLayout(count, orientation) called alone
Layout(count, orientation) ==
    /\ probe' = [op |-> "getGridLayout", count |-> count, orientation |-> orientation,
                 result |-> getGridLayout(count, orientation)]
    /\ UNCHANGED <<storeVars, calls, used, thumbs, imageCache, nextId, notification>>

LayoutNext ==
    \/ \E n \in 0..MaxPhotos, size \in PageSizes \cup (OtherSizes \ {NaN}) : Paginate(n, size)
    \/ \E perPage \in PageSizes \cup OtherSizes : PaginateLoaded(EditedFile(perPage))
    \/ \E count \in PageSizes \cup OtherSizes, o \in Orientations : Layout(count, o)

SpecLayout == StoreInit /\ [][LayoutNext]_vars

\* ------------------------------------------------------------------------
\* The state files driven alone: load, save, load of the saved file
\* ------------------------------------------------------------------------
\* a text of n times the character ch
Repeat(ch, n) == [i \in 1..n |-> ch]

\* a url that is no embedded image
BlobUrl(b) == [pfx |-> "blob:", body |-> b]

\* a state file with two photos; the variations below change one field of it
BaseFile ==
    [DEFAULT_SETTINGS EXCEPT
        !.siteName = <<"A">>,
        !.personName = <<"B">>,
        !.date = "2026-10-01",
        !.photos = <<[id |-> 1001, url |-> DataImage(1001), location |-> <<"x">>, comment |-> <<"y">>],
                     [id |-> 1002, url |-> DataImage(1002), location |-> <<>>, comment |-> <<>>]>>]

\* the photos of BaseFile with one field of the first changed
WithPhoto(field, value) ==
    [BaseFile EXCEPT !.photos = [@ EXCEPT ![1] = [@ EXCEPT ![field] = value]]]

\* the parsed state files the load handler is given: numbers out of the
\* declared sets, NaN standing for a value Number() makes NaN of (a missing
\* or non-numeric one), texts with the characters the escaper rewrites and
\* texts over the limits, repeated and missing ids, a url that is no image
StateFiles ==
    {BaseFile}
    \cup {[BaseFile EXCEPT !.photosPerPage = n] : n \in PageSizes \cup OtherSizes}
    \cup {[BaseFile EXCEPT !.fontSize = n] : n \in {5, 6, 20, 21, NaN}}
    \cup {[BaseFile EXCEPT !.orientation = o] : o \in {"landscape", "diagonal"}}
    \cup {[BaseFile EXCEPT !.fontFamily = "serif"], [BaseFile EXCEPT !.fontFamily = "cursive"],
           [BaseFile EXCEPT !.fontWeight = "bold"], [BaseFile EXCEPT !.fontWeight = "900"],
           [BaseFile EXCEPT !.imageQuality = "highest"], [BaseFile EXCEPT !.imageQuality = "low"],
           [BaseFile EXCEPT !.imageDisplayMode = "fit"], [BaseFile EXCEPT !.imageDisplayMode = "stretch"]}
    \cup {[BaseFile EXCEPT !.siteName = t] :
             t \in {<<"A", "&", "B">>, <<"<", "b", ">">>, Repeat("A", MAX_SITE_NAME_LENGTH + 1)}}
    \cup {[BaseFile EXCEPT !.personName = Repeat("B", MAX_PERSON_NAME_LENGTH + 1)]}
    \cup {WithPhoto("location", t) :
             t \in {<<"&">>, Repeat("x", MAX_LOCATION_LENGTH + 1), Repeat("&", MAX_LOCATION_LENGTH)}}
    \cup {WithPhoto("comment", t) : t \in {<<"<">>, Repeat("y", MAX_COMMENT_LENGTH + 1)}}
    \cup {WithPhoto("id", i) : i \in {1002, NaN, 0}}
    \cup {WithPhoto("url", u) : u \in {BlobUrl(1), Null}}

\* the handler of reader.onload given the parsed JSON loadedState
LoadHandler(loadedState, fromSave) ==
    /\ used.ops < MaxCycle
    /\ LET sm == setState(Store, observers, sanitizedState(loadedState, nextId), TRUE)
       IN  /\ state' = sm.state
           /\ history' = sm.history
           /\ notified' = sm.notified
    /\ nextId' = nextId + Min(MAX_FILE_COUNT, Len(loadedState.photos))
    /\ used' = [used EXCEPT !.ops = @ + 1]
    /\ notification' = "loaded"
    /\ ret' = NoRet
    /\ probe' = [op |-> "load", file |-> loadedState, fromSave |-> fromSave]
    /\ UNCHANGED <<observers, run, calls, thumbs, imageCache>>

\* loadInput change with a file of the user
LoadFile(loadedState) == LoadHandler(loadedState, FALSE)

\* saveButton click: JSON.stringify(stateManager.getState()) is downloaded;
\* prev is the file the state was loaded from, when that was a saved one
SaveFile ==
    /\ probe' = [op |-> "save", file |-> JSONCopy(state),
                 cycled |-> probe.op = "load" /\ probe.fromSave,
                 prev |-> IF probe.op = "load" THEN probe.file ELSE JSONCopy(state)]
    /\ UNCHANGED <<storeVars, calls, used, thumbs, imageCache, nextId, notification>>

\* loadInput change with the file just saved
LoadSaved ==
    /\ probe.op = "save"
    /\ LoadHandler(probe.file, TRUE)

FilesNext ==
    \/ \E f \in StateFiles : LoadFile(f)
    \/ SaveFile
    \/ LoadSaved

SpecLoad == StoreInit /\ [][FilesNext]_vars

\* ------------------------------------------------------------------------
\* The settings driven alone: the change handlers, loads, undo and reset
\* ------------------------------------------------------------------------
\* the values each select and radio group offers
SettingValues ==
    [orientation |-> {"portrait", "landscape"},
     fontFamily |-> {"sans-serif", "serif"},
     fontWeight |-> {"normal", "bold"},
     imageQuality |-> {"high", "highest"},
     imageDisplayMode |-> {"trim", "fit"}]

\* the texts of the font size field when it changes: emptied, 12 and 9
SettingTexts == FontSizeTexts \cup {<<"9">>}

\* stateManager.set(key, value) by a change handler
ChangeHandler(key, value) ==
    /\ used.ops < MaxCycle
    /\ LET sm == setState(Store, observers, [k \in {key} |-> value], TRUE)
       IN  /\ state' = sm.state
           /\ history' = sm.history
           /\ notified' = sm.notified
    /\ used' = [used EXCEPT !.ops = @ + 1]
    /\ ret' = [op |-> "setState", value |-> TRUE]
    /\ UNCHANGED <<observers, run, calls, thumbs, imageCache, nextId, notification, probe>>

\* change of a select or of a radio group: set(key, e.target.value)
ChangeSelect(key, value) == ChangeHandler(key, value)

\* photosPerPageSelect change: set('photosPerPage', parseInt(e.target.value, 10))
ChangePhotosPerPage(n) == ChangeHandler("photosPerPage", n)

\* fontSizeInput change: set('fontSize', parseInt(e.target.value, 10))
ChangeFontSize(text) == ChangeHandler("fontSize", parseInt(text))

SettingsNext ==
    \/ \E key \in DOMAIN SettingValues : \E value \in SettingValues[key] : ChangeSelect(key, value)
    \/ \E n \in PageSizes : ChangePhotosPerPage(n)
    \/ \E text \in SettingTexts : ChangeFontSize(text)
    \/ \E f \in StateFiles : LoadFile(f)
    \/ Undo
    \/ Reset

SpecSettings == StoreInit /\ [][SettingsNext]_vars

\* ------------------------------------------------------------------------
\* compressImageAsync driven alone
\* ------------------------------------------------------------------------
\* AppConfig.IMAGE_QUALITY[quality.toUpperCase()].maxDimension
IMAGE_QUALITY ==
    [high |-> [maxDimension |-> 1920], highest |-> [maxDimension |-> 2560]]

\* the sides of the decoded images, in pixels: 0 for an image without
\* content, sides around and over each maxDimension
ImageSides == {0, 1, 2, 1000, 1919, 1920, 1921, 2559, 2560, 2561, 4000, 5120}

\* the dimensions img.onload computes with every image scaled to
\* maxDimension, the smaller ones too
compressedSizeAlways(width, height, maxDimension) ==
    IF width > height
    THEN [width |-> maxDimension, height |-> (height * maxDimension) \div width]
    ELSE [width |-> (width * maxDimension) \div height, height |-> maxDimension]

\* the dimensions img.onload computes and gives the canvas, which keeps
\* the whole pixels of them: the longer side over maxDimension becomes
\* maxDimension and the other is multiplied by maxDimension / longer
compressedSize(width, height, maxDimension) ==
    IF width > height
    THEN IF width > maxDimension
         THEN [width |-> maxDimension, height |-> (height * maxDimension) \div width]
         ELSE [width |-> width, height |-> height]
    ELSE IF height > maxDimension
         THEN [width |-> (width * maxDimension) \div height, height |-> maxDimension]
         ELSE [width |-> width, height |-> height]

\* compressImageAsync(src) for an image of width x height that decodes:
\* the promise is rejected for an image without content
compressImageAsync(width, height, quality) ==
    IF width = 0 \/ height = 0
    THEN [settled |-> "rejected", size |-> [width |-> 0, height |-> 0]]
    ELSE [settled |-> "resolved",
          size |-> compressedSize(width, height, IMAGE_QUALITY[quality].maxDimension)]

\* compressImageAsync called alone, the profile being the imageQuality of
\* the state
Compress(width, height) ==
    /\ probe' = [op |-> "compressImageAsync", width |-> width, height |-> height,
                 maxDimension |-> IMAGE_QUALITY[state.imageQuality].maxDimension,
                 result |-> compressImageAsync(width, height, state.imageQuality)]
    /\ UNCHANGED <<storeVars, calls, used, thumbs, imageCache, nextId, notification>>

CompressNext ==
    \/ \E value \in SettingValues.imageQuality : ChangeSelect("imageQuality", value)
    \/ \E width \in ImageSides, height \in ImageSides : Compress(width, height)

SpecCompress == StoreInit /\ [][CompressNext]_vars

\* ------------------------------------------------------------------------
\* The photo list inputs driven alone, on the photos of a loaded file
\* ------------------------------------------------------------------------
\* what the user leaves in a location or comment field: short texts, texts
\* at and over the limit of the field, with and without escaped characters
FieldTexts(maxLength) ==
    {<<"a">>, <<"<", "a", ">">>, Repeat("a", maxLength), Repeat("&", maxLength),
     Repeat("a", maxLength + 1)}

\* the limit of the field
FieldLimit(field) == IF field = "location" THEN MAX_LOCATION_LENGTH ELSE MAX_COMMENT_LENGTH

\* photoListContainer input on the field of the photo photoId: a value over
\* the limit is refused with a notification, any other value restarts the
\* timer of debouncedPhotoUpdate with it
PhotoInput(photoId, field, value) ==
    /\ field \in {"location", "comment"}
    /\ used.ops < MaxCycle
    /\ IF Len(value) > FieldLimit(field)
       THEN /\ notification' = "tooLong"
            /\ UNCHANGED probe
       ELSE /\ probe' = [op |-> "debounce", photoId |-> photoId, field |-> field, value |-> value]
            /\ UNCHANGED notification
    /\ UNCHANGED <<storeVars, calls, used, thumbs, imageCache, nextId>>

\* the timer of debouncedPhotoUpdate fires: the photo object is assigned the
\* escaped value in place, and the photos are set to a copy of the list
DebouncedPhotoUpdate ==
    /\ probe.op = "debounce"
    /\ LET photos == state.photos
           at == FindIndex(photos, probe.photoId)
       IN  IF at # 0
           THEN \E edited \in {[i \in 1..Len(photos) |->
                                  IF i = at
                                  THEN [photos[i] EXCEPT ![probe.field] = sanitizeText(probe.value)]
                                  ELSE photos[i]]} :
                   \E sm \in {setPhotos([Store EXCEPT
                                            !.state.photos = edited,
                                            !.history = InPlace(@, {photos[at].ref},
                                                LAMBDA q : [q EXCEPT ![probe.field] =
                                                                sanitizeText(probe.value)])],
                                        observers, edited)} :
                       /\ state' = sm.state
                       /\ history' = sm.history
                       /\ notified' = sm.notified
                       /\ ret' = [op |-> "setState", value |-> TRUE]
           ELSE UNCHANGED <<state, history, notified, ret>>
    /\ used' = [used EXCEPT !.ops = @ + 1]
    /\ probe' = [op |-> "photoUpdate", photoId |-> probe.photoId, field |-> probe.field,
                 value |-> probe.value,
                 found |-> FindIndex(state.photos, probe.photoId) # 0,
                 before |-> IF FindIndex(state.photos, probe.photoId) # 0
                            THEN state.photos[FindIndex(state.photos, probe.photoId)][probe.field]
                            ELSE <<>>]
    /\ UNCHANGED <<observers, run, calls, thumbs, imageCache, nextId, notification>>

\* the state files whose photos are edited: two photos, two photos with the
\* same id, one photo
EditFiles == {BaseFile, WithPhoto("id", 1002), WithPhoto("url", BlobUrl(1))}

EditNext ==
    \/ \E f \in EditFiles : LoadFile(f)
    \/ \E i \in 1..Len(state.photos), field \in {"location", "comment"} :
          \E value \in FieldTexts(FieldLimit(field)) :
              PhotoInput(state.photos[i].id, field, value)
    \/ DebouncedPhotoUpdate

SpecEdit == StoreInit /\ [][EditNext]_vars

\* The photo list inputs, and undo() called on the store
EditUndoNext ==
    \/ EditNext
    \/ Undo

SpecEditUndo == StoreInit /\ [][EditUndoNext]_vars

\* a state file is loaded while no timer of debouncedPhotoUpdate is pending
LoadIdle(f) ==
    /\ probe.op # "debounce"
    /\ LoadFile(f)

DebounceNext ==
    \/ \E f \in EditFiles : LoadIdle(f)
    \/ \E i \in 1..Len(state.photos), field \in {"location", "comment"} :
          \E value \in FieldTexts(FieldLimit(field)) :
              PhotoInput(state.photos[i].id, field, value)
    \/ DebouncedPhotoUpdate

\* the inputs on the photo list with the timer set by debounce firing once
\* its delay has passed without another call
SpecDebounce ==
    /\ StoreInit
    /\ [][DebounceNext]_vars
    /\ WF_vars(DebouncedPhotoUpdate)

Init ==
    /\ state = [DEFAULT_SETTINGS EXCEPT !.date = TODAY]
    /\ history = <<DEFAULT_SETTINGS>>
    /\ observers = <<"render">>
    /\ notified = <<>>
    /\ ret = NoRet
    /\ run = FreshRun
    /\ AppIdle

Steps(c, k) ==
    \/ HeaderLoaded(c, k)
    \/ HeaderError(c, k)
    \/ ReadLoaded(c, k)
    \/ ReadError(c, k)
    \/ \E encoded \in BOOLEAN : DecodeLoaded(c, k, encoded)
    \/ DecodeError(c, k)

\* the callbacks of the reads and decodes in flight
Pipeline == \E c \in 1..MaxCalls : \E k \in 1..Len(calls[c].files) : Steps(c, k)

\* The ingestion alone: drops of any files, and their pipelines
IngestNext ==
    \/ \E c \in 1..MaxCalls, files \in SeqsUpTo(AppFiles, MaxFiles) : Drop(c, files)
    \/ Pipeline

SpecIngest == Init /\ [][IngestNext]_vars

\* One ingest call: a drop of any files, and its pipelines
CallNext ==
    \/ \E files \in SeqsUpTo(AppFiles, MaxFiles) : Drop(1, files)
    \/ Pipeline

SpecCall == Init /\ [][CallNext]_vars

\* The file count limit: a state file loaded, photos removed, and drops of up
\* to MaxDrop valid files, one call at a time
LimitNext ==
    \/ \E files \in SeqsUpTo({GoodJpeg}, MaxDrop) : Drop(1, files)
    \/ Pipeline
    \/ \E j \in RemoveIdx(state.photos) : Remove(state.photos[j].id)
    \/ \E n \in LoadCounts : Load(SavedFile(n))

SpecLimit == Init /\ [][LimitNext]_vars

\* One ingest call of up to MaxFiles files, and photos removed while it runs
AppendNext ==
    \/ \E files \in SeqsUpTo({GoodJpeg, TooLarge}, MaxFiles) : Drop(1, files)
    \/ Pipeline
    \/ \E j \in RemoveIdx(state.photos) : Remove(state.photos[j].id)

SpecAppend == Init /\ [][AppendNext]_vars

\* The application: drops of up to MaxDrop valid files, thumbnails, removal
\* and load
Next ==
    \/ \E c \in 1..MaxCalls, files \in SeqsUpTo({GoodJpeg}, MaxDrop) : Drop(c, files)
    \/ Pipeline
    \/ \E t \in thumbs : ThumbLoaded(t) \/ ThumbError(t)
    \/ \E j \in RemoveIdx(state.photos) : Remove(state.photos[j].id)
    \/ \E n \in LoadCounts : Load(SavedFile(n))

Spec == Init /\ [][Next]_vars


\* One ingest call of valid files with the thumbnails of its records, and the
\* removal of photos
ThumbNext ==
    \/ \E files \in SeqsUpTo({GoodJpeg}, MaxDrop) : Drop(1, files)
    \/ Pipeline
    \/ \E t \in thumbs : ThumbLoaded(t)
    \/ \E t \in thumbs : ThumbError(t)
    \/ \E j \in RemoveIdx(state.photos) : Remove(state.photos[j].id)

SpecThumb == Init /\ [][ThumbNext]_vars

\* window beforeunload: memoryManager.cleanupAllImageUrls(stateManager.get('photos'))
\* releases the photo objects of the state in place and clears the cache
BeforeUnload ==
    /\ LET photos == state.photos
           released == cleanupAllImageUrls(photos)
       IN  /\ state' = [state EXCEPT !.photos = released]
           /\ thumbs' = {IF t.ref # 0 /\ \E i \in 1..Len(photos) : photos[i].ref = t.ref
                         THEN revokedPhoto(t) ELSE t : t \in thumbs}
           /\ history' = InPlace(history, {photos[i].ref : i \in 1..Len(photos)},
                                 LAMBDA q : cleanupAllImageUrls(<<q>>)[1])
           /\ probe' = [op |-> "cleanupAllImageUrls", photos |-> photos,
                        result |-> released, cache |-> <<>>]
    /\ imageCache' = <<>>
    /\ notified' = <<>>
    /\ ret' = NoRet
    /\ UNCHANGED <<observers, run, calls, used, nextId, notification>>

\* One ingest call with its thumbnails, removals, and the page left
UnloadNext ==
    \/ ThumbNext
    \/ BeforeUnload

SpecUnload == Init /\ [][UnloadNext]_vars

\* One ingest call with its thumbnails, removals, and undo
RemoveUndoNext ==
    \/ ThumbNext
    \/ Undo

SpecRemoveUndo == Init /\ [][RemoveUndoNext]_vars

\* One ingest call of two valid files with its thumbnails, removals,
\* annotations typed, the page left, and undo
HistoryNext ==
    \/ Drop(1, <<GoodJpeg, GoodJpeg>>)
    \/ Pipeline
    \/ \E t \in thumbs : ThumbLoaded(t)
    \/ \E j \in RemoveIdx(state.photos) : Remove(state.photos[j].id)
    \/ BeforeUnload
    \/ Undo
    \/ \E i \in 1..Len(state.photos) : PhotoInput(state.photos[i].id, "location", <<"a">>)
    \/ DebouncedPhotoUpdate

SpecHistory == Init /\ [][HistoryNext]_vars

\* ------------------------------------------------------------------------
\* The site name and person name inputs (print-script.js): focus protection,
\* debounced updates and delayed renders, with the time in units of 100 ms
\* ------------------------------------------------------------------------
\* the delays of the timers: debounce(..., 500), setTimeout(..., 100) of the
\* render after an update, setTimeout(..., 200) of releaseFocus after blur
DebounceTicks == 5
RenderTicks == 1
ReleaseTicks == 2

NoTimer == [due |-> -1, value |-> <<>>]

\* the form at rest: no field has focus, no timer is set, the preview shows
\* the names of the state
FormIdle ==
    [op |-> "form", now |-> 0, focus |-> "none", isInputInProgress |-> FALSE,
     debounce |-> [siteName |-> NoTimer, personName |-> NoTimer],
     release |-> {}, render |-> {},
     shown |-> [siteName |-> <<>>, personName |-> <<>>]]

\* protectFocus(element)
protectFocus(form, element) ==
    [form EXCEPT !.focus = element, !.isInputInProgress = TRUE]

\* releaseFocus()
releaseFocus(form) == [form EXCEPT !.isInputInProgress = FALSE]

\* renderPreview(): skipped while an input is in progress, else the preview
\* shows the names of the state st
renderPreview(form, st) ==
    IF form.isInputInProgress THEN form
    ELSE [form EXCEPT !.shown = [siteName |-> st.siteName, personName |-> st.personName]]

FormFields == {"siteName", "personName"}

\* focus on one of the two inputs: protectFocus(e.target)
FocusIn(field) ==
    /\ probe.focus = "none"
    /\ probe' = protectFocus(probe, field)
    /\ UNCHANGED <<storeVars, calls, used, thumbs, imageCache, nextId, notification>>

\* blur of the input that has focus: releaseFocus is set to run 200 ms later
FocusOut ==
    /\ probe.focus # "none"
    /\ probe.now + ReleaseTicks <= MaxTime
    /\ probe' = [probe EXCEPT !.focus = "none", !.release = @ \cup {probe.now + ReleaseTicks}]
    /\ UNCHANGED <<storeVars, calls, used, thumbs, imageCache, nextId, notification>>

\* input on the input that has focus: the timer of its debounced update is
\* set again with the value
FieldInput(value) ==
    /\ probe.focus # "none"
    /\ probe.now + DebounceTicks + RenderTicks <= MaxTime
    /\ probe' = [probe EXCEPT !.debounce[probe.focus] =
                                 [due |-> probe.now + DebounceTicks, value |-> value]]
    /\ UNCHANGED <<storeVars, calls, used, thumbs, imageCache, nextId, notification>>

\* the timer of debouncedSiteNameUpdate or debouncedPersonNameUpdate fires:
\* the name is set, the subscriber calls renderPreview when the name has
\* changed, and a render is set to run 100 ms later
DebouncedFieldUpdate(field) ==
    /\ probe.debounce[field].due = probe.now
    /\ \E sm \in {setState(Store, observers,
                            IF field = "siteName"
                            THEN [siteName |-> probe.debounce[field].value]
                            ELSE [personName |-> probe.debounce[field].value],
                            TRUE)} :
          /\ state' = sm.state
          /\ history' = sm.history
          /\ notified' = sm.notified
          /\ probe' = [(IF sm.state[field] # state[field]
                        THEN renderPreview(probe, sm.state) ELSE probe)
                          EXCEPT !.debounce[field] = NoTimer,
                                 !.render = @ \cup {probe.now + RenderTicks}]
    /\ ret' = [op |-> "setState", value |-> TRUE]
    /\ UNCHANGED <<observers, run, calls, used, thumbs, imageCache, nextId, notification>>

\* the timer set after an update fires: if (!isInputInProgress) renderPreview()
RenderTimer ==
    /\ probe.now \in probe.render
    /\ probe' = [renderPreview(probe, state) EXCEPT !.render = @ \ {probe.now}]
    /\ UNCHANGED <<storeVars, calls, used, thumbs, imageCache, nextId, notification>>

\* the timer set by a blur fires: releaseFocus()
ReleaseTimer ==
    /\ probe.now \in probe.release
    /\ probe' = [releaseFocus(probe) EXCEPT !.release = @ \ {probe.now}]
    /\ UNCHANGED <<storeVars, calls, used, thumbs, imageCache, nextId, notification>>

\* 100 ms pass once the timers that are due have fired
Tick ==
    /\ probe.now < MaxTime
    /\ probe.now \notin probe.render \cup probe.release
    /\ \A field \in FormFields : probe.debounce[field].due # probe.now
    /\ probe' = [probe EXCEPT !.now = @ + 1]
    /\ UNCHANGED <<storeVars, calls, used, thumbs, imageCache, nextId, notification>>

\* the timers and the time
FormClock ==
    \/ \E field \in FormFields : DebouncedFieldUpdate(field)
    \/ RenderTimer
    \/ ReleaseTimer
    \/ Tick

FormNext ==
    \/ \E field \in FormFields : FocusIn(field)
    \/ FocusOut
    \/ \E value \in {<<"A">>, <<"B">>} : FieldInput(value)
    \/ FormClock

FormInit ==
    /\ state = [DEFAULT_SETTINGS EXCEPT !.date = TODAY]
    /\ history = <<DEFAULT_SETTINGS>>
    /\ observers = <<"render">>
    /\ notified = <<>>
    /\ ret = NoRet
    /\ run = FreshRun
    /\ calls = [c \in 1..MaxCalls |-> IdleCall]
    /\ used = [files |-> 0, ops |-> 0, faults |-> 0, thumbs |-> 0]
    /\ thumbs = {}
    /\ imageCache = <<>>
    /\ nextId = 1
    /\ notification = ""
    /\ probe = FormIdle

\* the two inputs used for MaxTime, the time passing and the timers firing
\* when they are due
SpecForm ==
    /\ FormInit
    /\ [][FormNext]_vars
    /\ WF_vars(FormClock)

\* ------------------------------------------------------------------------
\* The legacy ingestion (app-script.js): one handleFilesAsync call
\* ------------------------------------------------------------------------
\* validateImageFile of app-script.js: the error thrown, NoReason when none
legacyValidateImageFile(file) ==
    IF file.type \notin ALLOWED_FILE_TYPES THEN [code |-> "INVALID_FILE_TYPE", at |-> "type"]
    ELSE IF file.size > MAX_FILE_SIZE THEN [code |-> "FILE_TOO_LARGE", at |-> "size"]
    ELSE NoReason

\* batch.map(file => processFileAsync(file)): a file that fails the
\* validation is rejected on the spot, the read of any other is started
LegacyStartBatch(call) ==
    LET started == [call EXCEPT !.promises =
                       [k \in 1..Len(call.files) |->
                           IF k \in BatchOf(call)
                           THEN IF legacyValidateImageFile(call.files[k]) # NoReason
                                THEN Rejected(legacyValidateImageFile(call.files[k]))
                                ELSE Pending("reading")
                           ELSE call.promises[k]]]
    IN  MarkSettled(started, call.i + 1, Min(call.i + MAX_CONCURRENT_UPLOADS, Len(call.files)))

\* results.forEach(...) of app-script.js: state.photos.push(photoData)
RECURSIVE LegacyForEachResult(_, _, _)
LegacyForEachResult(w0, k, last) ==
    IF k > last THEN w0
    ELSE The({LET result == w.call.promises[k]
                  photoData == result.value
              IN  IF result.stage = "fulfilled"
                  THEN LegacyForEachResult(
                         [w EXCEPT !.thumbs = @ \cup {photoData},
                                   !.sm.state.photos = Append(@, photoData),
                                   !.call.processedCount = @ + 1],
                         k + 1, last)
                  ELSE LegacyForEachResult([w EXCEPT !.call.errorCount = @ + 1], k + 1, last)
              : w \in {w0}})

\* handleFilesAsync of app-script.js from the await of Promise.allSettled on
RECURSIVE LegacyResume(_)
LegacyResume(w0) ==
    The({IF ~BatchSettled(w.call) THEN w
         ELSE LET last == Min(w.call.i + MAX_CONCURRENT_UPLOADS, Len(w.call.files))
                  i == w.call.i + MAX_CONCURRENT_UPLOADS
              IN  The({IF i < Len(w.call.files)
                       THEN LegacyResume([done EXCEPT !.call = LegacyStartBatch([done.call EXCEPT !.i = i])])
                       ELSE [done EXCEPT !.call.status = "done",
                                         !.call.i = i,
                                         !.notification = CompletionNotice(done.call)]
                       : done \in {LegacyForEachResult(w, w.call.i + 1, last)}})
         : w \in {w0}})

\* handleFilesAsync(files) of app-script.js up to its first suspension
LegacyDrop(files) ==
    /\ calls[1].status = "idle"
    /\ IF Len(state.photos) + Len(files) > MAX_FILE_COUNT
       THEN /\ notification' = "TOO_MANY_FILES"
            /\ ret' = NoRet
            /\ notified' = <<>>
            /\ UNCHANGED <<state, history, observers, run, calls, thumbs, imageCache, probe>>
       ELSE \E w \in {LegacyResume([World(1) EXCEPT !.call = LegacyStartBatch(NewCall(files))])} :
               Commit(1, w)
    /\ UNCHANGED <<used, nextId>>

\* a promise of the legacy call settles or moves on
LegacyAdvance(k, p) ==
    \E w \in {LegacyResume([World(1) EXCEPT
                               !.call.promises[k] = p,
                               !.call.settled = IF IsSettled(p) THEN Append(@, k) ELSE @])} :
        Commit(1, w)

\* processFileAsync: reader.onload, compressImage sets img.src
LegacyReadLoaded(k) ==
    /\ calls[1].status = "running"
    /\ calls[1].promises[k].stage = "reading"
    /\ LegacyAdvance(k, Pending("decoding"))
    /\ UNCHANGED <<used, nextId>>

\* processFileAsync: reader.onerror
LegacyReadError(k) ==
    /\ calls[1].status = "running"
    /\ calls[1].promises[k].stage = "reading"
    /\ Fault
    /\ LegacyAdvance(k, Rejected([code |-> "", at |-> "read"]))
    /\ CountFault
    /\ UNCHANGED nextId

\* compressImage: img.onload. An image without content or a canvas that
\* delivers no data URL makes the handler throw: callback is not called and
\* the promise of compressImageAsync, which has no use of reject, stays
\* pending
LegacyDecodeLoaded(k, encoded) ==
    /\ calls[1].status = "running"
    /\ calls[1].promises[k].stage = "decoding"
    /\ LET file == calls[1].files[k]
       IN  IF file.w = 0 \/ file.h = 0
           THEN /\ encoded
                /\ LegacyAdvance(k, Pending("thrown"))
                /\ UNCHANGED <<used, nextId>>
           ELSE IF ~encoded
           THEN /\ Fault
                /\ LegacyAdvance(k, Pending("thrown"))
                /\ CountFault
                /\ UNCHANGED nextId
           ELSE /\ LegacyAdvance(k, Fulfilled(NewPhoto(nextId, file)))
                /\ nextId' = nextId + 1
                /\ UNCHANGED used

\* compressImage: img.onerror throws, the promise stays pending
LegacyDecodeError(k) ==
    /\ calls[1].status = "running"
    /\ calls[1].promises[k].stage = "decoding"
    /\ Fault
    /\ LegacyAdvance(k, Pending("thrown"))
    /\ CountFault
    /\ UNCHANGED nextId

\* the files dropped on the legacy application: a valid image, an image
\* without content, a file over the size limit
ZeroImage == MakeFile(1000, "image/png", PngHead, <<0, 0>>)
LegacyFiles == {GoodJpeg, ZeroImage, TooLarge}

\* the callbacks of the reads and decodes in flight
LegacyPipeline ==
    \E k \in 1..Len(calls[1].files) :
        \/ LegacyReadLoaded(k)
        \/ LegacyReadError(k)
        \/ \E encoded \in BOOLEAN : LegacyDecodeLoaded(k, encoded)
        \/ LegacyDecodeError(k)

LegacyNext ==
    \/ \E files \in SeqsUpTo(LegacyFiles, MaxFiles) : LegacyDrop(files)
    \/ LegacyPipeline

\* a legacy ingest call with the started reads and decodes firing their
\* callbacks
SpecLegacy ==
    /\ Init
    /\ [][LegacyNext]_vars
    /\ WF_vars(LegacyPipeline)

\* One file of any kind through the pipeline
FileNext ==
    \/ \E f \in AllFiles : Drop(1, <<f>>)
    \/ Steps(1, 1) /\ Len(calls[1].files) = 1

SpecFile == Init /\ [][FileNext]_vars

\* An ingest call with the started reads and decodes firing their callbacks:
\* while a read or a decode is pending, one of the pending ones fires
SpecLive ==
    /\ Init
    /\ [][CallNext]_vars
    /\ WF_vars(Pipeline)

\* ------------------------------------------------------------------------
\* Properties
\* ------------------------------------------------------------------------
Running(c) == calls[c].status = "running"
NoIngestInFlight == \A c \in 1..MaxCalls : ~Running(c)

\* the pipelines in flight: the unsettled processFileAsync promises
PipelinesInFlight ==
    {ck \in (1..MaxCalls) \X (1..MaxFiles) :
        /\ ck[2] <= Len(calls[ck[1]].files)
        /\ InFlight(calls[ck[1]].promises[ck[2]])}

\* C1: whenever no ingest call is in flight, photos holds at most
\* MAX_FILE_COUNT records
C1_PhotoLimit == NoIngestInFlight => Len(state.photos) <= MAX_FILE_COUNT

\* C2: at most MAX_CONCURRENT_UPLOADS per-file pipelines are in flight at any
\* instant
C2_ConcurrencyBound == Cardinality(PipelinesInFlight) <= MAX_CONCURRENT_UPLOADS

\* the signature of the declared type in the first bytes
MatchesDeclaredType(type, bytes) ==
    \/ /\ type = "image/jpeg"
       /\ SubSeq(bytes, 1, Min(3, Len(bytes))) = <<255, 216, 255>>
    \/ /\ type = "image/png"
       /\ SubSeq(bytes, 1, Min(8, Len(bytes))) = <<137, 80, 78, 71, 13, 10, 26, 10>>
    \/ /\ type = "image/gif"
       /\ SubSeq(bytes, 1, Min(4, Len(bytes))) = <<71, 73, 70, 56>>
    \/ /\ type = "image/webp"
       /\ Len(bytes) >= 12
       /\ SubSeq(bytes, 1, 4) = <<82, 73, 70, 70>>
       /\ SubSeq(bytes, 9, 12) = <<87, 69, 66, 80>>

\* validateImageFile has returned or thrown for this promise
Validated(p) == p.stage \notin {"unstarted", "validating"}
\* validateImageFile returned true for this promise
Accepted(p) == Validated(p) /\ p.reason.at \notin {"size", "empty", "type", "header", "verify"}

\* C3: validateImageFile accepts a file exactly if its size is in
\* (0, MAX_FILE_SIZE], its declared type is allowed and its first bytes carry
\* the signature of that declared type (the header read having succeeded)
C3_AcceptsIffDeclaredSignature ==
    \A c \in 1..MaxCalls : \A k \in 1..Len(calls[c].files) :
        LET p == calls[c].promises[k]
            file == calls[c].files[k]
        IN  (Validated(p) /\ p.reason.at # "verify") =>
                (Accepted(p) <=>
                    /\ 0 < file.size
                    /\ file.size <= MAX_FILE_SIZE
                    /\ file.type \in ALLOWED_FILE_TYPES
                    /\ MatchesDeclaredType(file.type, file.head))

FulfilledOf(call) == {k \in 1..Len(call.files) : call.promises[k].stage = "fulfilled"}
RejectedOf(call) == {k \in 1..Len(call.files) : call.promises[k].stage = "rejected"}
\* the positions in photos of the records call c resolved with
RecordedOf(call) ==
    {i \in 1..Len(state.photos) :
        \E k \in FulfilledOf(call) : state.photos[i].id = call.promises[k].value.id}

\* C4: when a call completes every file has settled, each fulfilled file has
\* its record in photos, processedCount counts the records appended,
\* errorCount the failed files, and together they count the input files
C4_FailureIsolation ==
    \A c \in 1..MaxCalls :
        LET call == calls[c]
        IN  call.status = "done" =>
                /\ \A k \in 1..Len(call.files) : IsSettled(call.promises[k])
                /\ \A k \in FulfilledOf(call) :
                      \E i \in 1..Len(state.photos) : state.photos[i] = call.promises[k].value
                /\ call.processedCount = Cardinality(RecordedOf(call))
                /\ call.processedCount = Cardinality(FulfilledOf(call))
                /\ call.errorCount = Cardinality(RejectedOf(call))
                /\ call.processedCount + call.errorCount = Len(call.files)

\* a call of two groups is complete; a file of the first group failed at
\* validation, another file failed at a read or a decode, and a file of the
\* second group is recorded
C4_Witness ==
    \E c \in 1..MaxCalls :
        LET call == calls[c]
        IN  /\ call.status = "done"
            /\ Len(call.files) > MAX_CONCURRENT_UPLOADS
            /\ \E k \in RejectedOf(call) :
                  k <= MAX_CONCURRENT_UPLOADS /\ call.promises[k].reason.at \in {"size", "header"}
            /\ \E k \in RejectedOf(call) :
                  call.promises[k].reason.at \in {"verify", "read", "decode", "canvas"}
            /\ \E k \in FulfilledOf(call) : k > MAX_CONCURRENT_UPLOADS

\* the group (0, 1, ...) of the file at index k
GroupOf(k) == (k - 1) \div MAX_CONCURRENT_UPLOADS

\* C5: a file whose pipeline has started has every file of the earlier
\* groups of its call settled
C5_GroupsSequential ==
    \A c \in 1..MaxCalls : \A k \in 1..Len(calls[c].files) :
        calls[c].promises[k].stage # "unstarted" =>
            \A j \in 1..Len(calls[c].files) :
                GroupOf(j) < GroupOf(k) => IsSettled(calls[c].promises[j])

\* a file of the second group is in flight
C5_Witness ==
    \E c \in 1..MaxCalls : \E k \in 1..Len(calls[c].files) :
        GroupOf(k) = 1 /\ InFlight(calls[c].promises[k])

\* C6: every running call eventually completes; a file is in flight only in
\* a running call and has settled when the call is complete, so every file
\* in flight eventually settles
C6_EveryFileSettles ==
    /\ \A c \in 1..MaxCalls : Running(c) ~> (calls[c].status = "done")
    /\ [](\A c \in 1..MaxCalls : \A k \in 1..Len(calls[c].files) :
            /\ InFlight(calls[c].promises[k]) => Running(c)
            /\ calls[c].status = "done" => IsSettled(calls[c].promises[k]))

\* a call of two groups has completed
C6_Witness ==
    \E c \in 1..MaxCalls :
        /\ calls[c].status = "done"
        /\ Len(calls[c].files) > MAX_CONCURRENT_UPLOADS
        /\ FulfilledOf(calls[c]) # {}

\* C7: a handleFilesAsync call whose files do not fit under MAX_FILE_COUNT
\* starts no pipeline, appends no record and leaves the state, the history
\* and the cache as they are
C7_RejectedUpFront ==
    [][\A c \in 1..MaxCalls : \A files \in SeqsUpTo({GoodJpeg}, MaxDrop) :
          (Len(state.photos) + Len(files) > MAX_FILE_COUNT /\ Drop(c, files)) =>
              /\ UNCHANGED <<state, history, calls, thumbs, imageCache, nextId>>
              /\ notified' = <<>>
              /\ notification' = "TOO_MANY_FILES"]_vars

\* a call has been turned down: photos is within one of the limit
C7_Witness ==
    /\ notification = "TOO_MANY_FILES"
    /\ Len(state.photos) + MaxDrop > MAX_FILE_COUNT
    /\ \A c \in 1..MaxCalls : calls[c].status = "idle"

\* the place in call.settled of the file at index k
SettledAt(call, k) == CHOOSE n \in 1..Len(call.settled) : call.settled[n] = k
\* the file of call whose record is at place i of photos
FileOf(call, i) ==
    CHOOSE k \in FulfilledOf(call) : state.photos[i].id = call.promises[k].value.id

\* C8 as stated: the records of a call are in photos in the order in which
\* their pipelines completed
C8_CompletionOrder ==
    \A c \in 1..MaxCalls :
        \A i, j \in RecordedOf(calls[c]) :
            i < j => SettledAt(calls[c], FileOf(calls[c], i)) < SettledAt(calls[c], FileOf(calls[c], j))

\* C8 amended: the records of a call are in photos in the order of their
\* files in the input, whatever the order of completion
C8_InputOrder ==
    \A c \in 1..MaxCalls :
        \A i, j \in RecordedOf(calls[c]) :
            i < j => FileOf(calls[c], i) < FileOf(calls[c], j)

\* two files of one group completed in the reverse of their input order and
\* both records are in photos
C8_Witness ==
    \E c \in 1..MaxCalls :
        \E i, j \in RecordedOf(calls[c]) :
            /\ i < j
            /\ SettledAt(calls[c], FileOf(calls[c], i)) > SettledAt(calls[c], FileOf(calls[c], j))

\* C9: a recorded setState pushes the snapshot of the state before the
\* update, dropping the oldest entry at the cap, an unrecorded one pushes
\* nothing; the history never holds more than maxHistorySize entries; after n
\* recorded updates exactly min(n, maxHistorySize) consecutive undos succeed
C9_HistoryCap ==
    /\ [](Len(history) <= maxHistorySize)
    /\ [](run.clean =>
            /\ run.u <= Min(run.n, maxHistorySize)
            /\ (ret = [op |-> "undo", value |-> FALSE] => run.u = Min(run.n, maxHistorySize))
            /\ (run.u < Min(run.n, maxHistorySize) => Len(history) > 0))
    /\ [][\A u \in StoreUpdates(state) : \A save \in BOOLEAN :
            SetState(u, save) =>
                IF ~save THEN history' = history
                ELSE IF Len(history) < maxHistorySize
                THEN history' = Append(history, state)
                ELSE history' = Append(Tail(history), state)]_vars

\* after more than maxHistorySize recorded updates, maxHistorySize undos
\* succeeded and the next one returned false
C9_Witness ==
    /\ run.clean
    /\ run.n > maxHistorySize
    /\ run.u = maxHistorySize
    /\ run.s > 0
    /\ ret = [op |-> "undo", value |-> FALSE]

\* C10: undo() on an empty history returns false and changes and notifies
\* nothing; otherwise it installs the last entry, removes that entry alone,
\* notifies every observer once with (restored, replaced) and returns true
C10_Undo ==
    [][Undo =>
          IF Len(history) = 0
          THEN /\ ret'.value = FALSE
               /\ state' = state
               /\ history' = history
               /\ notified' = <<>>
          ELSE /\ ret'.value = TRUE
               /\ state' = history[Len(history)]
               /\ history' = SubSeq(history, 1, Len(history) - 1)
               /\ notified' = [i \in 1..Len(observers) |->
                                 [cb |-> observers[i],
                                  newState |-> history[Len(history)],
                                  oldState |-> state]]]_vars

\* an undo has succeeded and two observers were notified of it
C10_Witness ==
    /\ ret = [op |-> "undo", value |-> TRUE]
    /\ Len(notified) = 2
    /\ notified[1].newState = state
    /\ notified[1].oldState # state

\* C11: the first undo() after a recorded setState returns true and leaves a
\* state equal in content to the one the setState replaced; the next undo()
\* returns false when the history was empty before that setState
C11_RoundTrip ==
    /\ (probe.op = "undo" /\ probe.undos = 1) =>
            (ret.value = TRUE /\ state = probe.before)
    /\ (probe.op = "undo" /\ probe.undos = 2 /\ probe.fresh) => ret.value = FALSE

\* the last step was a store call, and it was noted
Called == ret.op \in {"setState", "undo", "reset"} /\ probe.op = ret.op

\* C12: with a subscriber that throws, a setState, undo or reset still calls
\* every registered subscriber, applies its change of the state and of the
\* history, and ends without an exception
C12_SubscriberExceptions ==
    Called =>
        /\ probe.error = FALSE
        /\ (probe.op = "undo" /\ probe.hlen = 0) => notified = <<>>
        /\ ~(probe.op = "undo" /\ probe.hlen = 0) =>
              /\ Len(notified) = Len(observers)
              /\ \A i \in 1..Len(observers) : notified[i].cb = observers[i]
        /\ probe.op = "setState" =>
              /\ \A k \in DOMAIN probe.updates : state[k] = probe.updates[k]
              /\ Len(history) = probe.hlen + 1
        /\ (probe.op = "undo" /\ probe.hlen > 0) => Len(history) = probe.hlen - 1
        /\ probe.op = "reset" => (state = DEFAULT_SETTINGS /\ history = <<>>)

\* a setState was made with the throwing subscriber registered first and
\* another one after it
C12_Witness ==
    /\ Called
    /\ probe.op = "setState"
    /\ observers = <<"cbThrows", "cb1">>
    /\ Len(notified) = 2
    /\ state.siteName = <<"A">>

\* C13: a setState calls every registered subscriber once, in registration
\* order and within the call, with newState the old state overridden by the
\* keys of the update and oldState the state before the update
C13_NotifiesEachOnce ==
    (Called /\ probe.op = "setState") =>
        notified =
            [i \in 1..Len(observers) |->
                [cb |-> observers[i],
                 newState |-> [k \in DOMAIN probe.before |->
                                  IF k \in DOMAIN probe.updates
                                  THEN probe.updates[k] ELSE probe.before[k]],
                 oldState |-> probe.before]]

\* two subscribers were notified of an update of the site name that left
\* the font size set before as it was
C13_Witness ==
    /\ Called
    /\ probe.op = "setState"
    /\ Len(notified) = 2
    /\ notified[2].newState.siteName = <<"A">>
    /\ notified[2].oldState.siteName = <<>>
    /\ notified[2].newState.fontSize = 12

\* the state a noted setState computes of what it found
Merged ==
    [k \in DOMAIN probe.before |->
        IF k \in DOMAIN probe.updates THEN probe.updates[k] ELSE probe.before[k]]

\* C14: whatever a subscriber assigns to the newState or oldState it has
\* received, the store's state after a setState is the merged state, and
\* every subscriber notified after it receives the merged state and the
\* state before the update
C14_ImmutableSnapshots ==
    (Called /\ probe.op = "setState") =>
        /\ state = Merged
        /\ \A i \in 1..Len(notified) :
              /\ notified[i].newState = Merged
              /\ notified[i].oldState = probe.before

\* C15: every step that changes the content of the state, the fields of
\* the photo records included, is a change made by the store: the
\* subscribers are notified in that step, the first notification has the
\* state before the step as oldState and the last one the state after it as
\* newState
C15_ChangesOnlyThroughStore ==
    [][state' # state =>
          /\ notified' # <<>>
          /\ notified'[1].oldState = state
          /\ notified'[Len(notified')].newState = state']_vars

\* C16: after every call on the cache, additions included, it holds at
\* most MAX_CACHE_SIZE entries
C16_CacheBound == Len(imageCache) <= MAX_CACHE_SIZE

\* more than MAX_CACHE_SIZE keys were added, another call was made in
\* between, and the last addition left the cache full
C16_Witness ==
    /\ probe.op = "cache"
    /\ probe.last = "add"
    /\ ~probe.pure
    /\ probe.inserted > MAX_CACHE_SIZE
    /\ Len(imageCache) = MAX_CACHE_SIZE

\* C17: after n distinct keys added to an empty cache, the keys present are
\* the last min(n, MAX_CACHE_SIZE) added, each with its data, oldest first
C17_KeepsMostRecent ==
    (probe.op = "cache" /\ probe.pure) =>
        LET n == probe.inserted
            kept == Min(n, MAX_CACHE_SIZE)
        IN  imageCache =
                [i \in 1..kept |->
                    [key |-> n - kept + i,
                     thumbnail |-> DataImage(0 - (n - kept + i)),
                     original |-> DataImage(n - kept + i)]]

\* MAX_CACHE_SIZE + 2 distinct keys were added to the empty cache
C17_Witness ==
    /\ probe.op = "cache"
    /\ probe.pure
    /\ probe.inserted = MAX_CACHE_SIZE + 2
    /\ imageCache[1].key = 3

\* the pages one after the other
RECURSIVE Concat(_)
Concat(pages) == IF pages = <<>> THEN <<>> ELSE Head(pages) \o Concat(Tail(pages))

\* C18: for a page size of the select, chunkArray returns ceil(len / size)
\* pages, each but the last of size photos, the last of 1 to size, and the
\* pages one after the other are the photos
C18_Pagination ==
    (probe.op = "chunkArray" /\ probe.size \in PageSizes) =>
        LET pages == probe.result.pages
            len == Len(probe.arr)
        IN  /\ probe.result.returned
            /\ Len(pages) = (len + probe.size - 1) \div probe.size
            /\ \A p \in 1..(Len(pages) - 1) : Len(pages[p]) = probe.size
            /\ pages # <<>> =>
                  (1 <= Len(pages[Len(pages)]) /\ Len(pages[Len(pages)]) <= probe.size)
            /\ Concat(pages) = probe.arr

\* 13 photos paginated by 6: pages of 6, 6 and 1
C18_Witness ==
    /\ probe.op = "chunkArray"
    /\ probe.size = 6
    /\ Len(probe.arr) = 13
    /\ Len(probe.result.pages) = 3
    /\ Len(probe.result.pages[3]) = 1

\* C19: with a page size that is not positive and photos to paginate,
\* chunkArray ends by signalling an error and makes no page, called alone or
\* by renderPreview on a loaded state
C19_RejectsNonPositive ==
    (probe.op \in {"chunkArray", "renderPreview"} /\ probe.size # NaN
        /\ probe.size <= 0 /\ probe.arr # <<>>) =>
        /\ probe.result.returned = FALSE
        /\ probe.result.threw = TRUE
        /\ probe.result.pages = <<>>

\* C20: getGridLayout returns the grid of the table for 1, 2, 3, 4, 6 and
\* 8 photos, columns times rows being the number of photos, and the grid of
\* 4 for every other number
C20_GridTable ==
    probe.op = "getGridLayout" =>
        LET c == probe.count
            portrait == probe.orientation = "portrait"
            g == probe.result
        IN  /\ c = 1 => g = [cols |-> 1, rows |-> 1]
            /\ c = 2 => g = IF portrait THEN [cols |-> 1, rows |-> 2] ELSE [cols |-> 2, rows |-> 1]
            /\ c = 3 => g = IF portrait THEN [cols |-> 1, rows |-> 3] ELSE [cols |-> 3, rows |-> 1]
            /\ c = 4 => g = [cols |-> 2, rows |-> 2]
            /\ c = 6 => g = IF portrait THEN [cols |-> 2, rows |-> 3] ELSE [cols |-> 3, rows |-> 2]
            /\ c = 8 => g = IF portrait THEN [cols |-> 2, rows |-> 4] ELSE [cols |-> 4, rows |-> 2]
            /\ c \notin PageSizes => g = [cols |-> 2, rows |-> 2]
            /\ c \in PageSizes => g.cols * g.rows = c

\* the grid of 6 photos on a landscape page: 3 columns, 2 rows
C20_Witness ==
    /\ probe.op = "getGridLayout"
    /\ probe.count = 6
    /\ probe.orientation = "landscape"
    /\ probe.result = [cols |-> 3, rows |-> 2]

\* the string fields of a state file
StringFields(f) ==
    [siteName |-> f.siteName, personName |-> f.personName,
     locations |-> [i \in 1..Len(f.photos) |-> f.photos[i].location],
     comments |-> [i \in 1..Len(f.photos) |-> f.photos[i].comment]]

\* C21: the file saved after loading a saved file has the string fields of
\* the file that was loaded: a save/load cycle changes no string field
C21_SanitizeIdempotent ==
    (probe.op = "save" /\ probe.cycled) =>
        StringFields(probe.file) = StringFields(probe.prev)

\* C22: after a state file is loaded, photosPerPage is one of 1, 2, 3, 4,
\* 6 and 8
C22_LoadedPageSize ==
    probe.op = "load" => state.photosPerPage \in PageSizes

\* C24: after a state file is loaded, the site name, the person name and
\* every location and comment are within their limits, there are at most
\* MAX_FILE_COUNT photos and the url of each is an embedded image
C24_LoadedWithinLimits ==
    probe.op = "load" =>
        /\ Len(state.siteName) <= MAX_SITE_NAME_LENGTH
        /\ Len(state.personName) <= MAX_PERSON_NAME_LENGTH
        /\ Len(state.photos) <= MAX_FILE_COUNT
        /\ \A i \in 1..Len(state.photos) :
              /\ Len(state.photos[i].location) <= MAX_LOCATION_LENGTH
              /\ Len(state.photos[i].comment) <= MAX_COMMENT_LENGTH
              /\ startsWithDataImage(state.photos[i].url)

\* C25: the ids of the photos of the state are pairwise distinct
C25_DistinctIds ==
    \A i, j \in 1..Len(state.photos) :
        i # j => state.photos[i].id # state.photos[j].id

\* C23: in every state the font size is within 6..20 and the orientation,
\* the font family, the font weight, the image quality and the display mode
\* each hold one of their declared values
C23_SettingsInRange ==
    /\ state.fontSize \in 6..20
    /\ \A key \in DOMAIN SettingValues : state[key] \in SettingValues[key]

IdsOf(photos) == {photos[i].id : i \in 1..Len(photos)}

\* the photo id was in the photos of an earlier state and is no longer in
\* them: the photo was removed
Removed(id) ==
    /\ id \notin IdsOf(state.photos)
    /\ \E n \in 1..Len(history) : id \in IdsOf(history[n].photos)

\* C27: the cache holds no entry keyed by the id of a removed photo, whether
\* or not the thumbnail of the photo was in the making when it was removed
C27_RemovedStaysEvicted ==
    \A i \in 1..Len(imageCache) : ~Removed(imageCache[i].key)

\* C28 as stated: after cleanupAllImageUrls(photos) the cache is empty and
\* the url and the thumbnail of every photo are null
C28_AllNull ==
    probe.op = "cleanupAllImageUrls" =>
        /\ probe.cache = <<>>
        /\ \A i \in 1..Len(probe.result) :
              probe.result[i].url = Null /\ probe.result[i].thumbnail = Null

\* C28 amended: after cleanupAllImageUrls(photos) the cache is empty, every
\* url and thumbnail that was an embedded image is null and every other one
\* is as it was (a thumbnail not yet made stays undefined), so that no photo
\* keeps an embedded image
C28_ReleasesImages ==
    probe.op = "cleanupAllImageUrls" =>
        /\ probe.cache = <<>>
        /\ Len(probe.result) = Len(probe.photos)
        /\ \A i \in 1..Len(probe.result) :
              LET before == probe.photos[i]
                  after == probe.result[i]
              IN  /\ after.url = IF startsWithDataImage(before.url) THEN Null ELSE before.url
                  /\ after.thumbnail =
                        IF startsWithDataImage(before.thumbnail) THEN Null ELSE before.thumbnail
                  /\ ~startsWithDataImage(after.url)
                  /\ ~startsWithDataImage(after.thumbnail)
                  /\ after.id = before.id

\* the page was left with two photos, one with its thumbnail and one whose
\* thumbnail was not made yet
C28_Witness ==
    /\ probe.op = "cleanupAllImageUrls"
    /\ \E i, j \in 1..Len(probe.photos) :
          /\ startsWithDataImage(probe.photos[i].thumbnail)
          /\ probe.photos[j].thumbnail = Undefined
          /\ probe.result[i].thumbnail = Null
          /\ probe.result[j].url = Null
    /\ imageCache = <<>>

\* every file of the group g of the call has settled
GroupSettled(call, g) ==
    \A k \in 1..Len(call.files) : GroupOf(k) = g => IsSettled(call.promises[k])

\* the photo of the list with the id
PhotoOf(photos, id) == photos[FindIndex(photos, id)]

\* C29: in the step in which a group settles, the record of each of its
\* successful files is appended to photos, without a thumbnail and with its
\* thumbnail still to be made; and a step in which a thumbnail is made or
\* fails leaves the same records in photos and the call as it was
C29_ThumbnailNeverBlocks ==
    [][/\ \A k \in 1..Len(calls'[1].files) :
            (/\ calls'[1].files = calls[1].files
             /\ GroupSettled(calls'[1], GroupOf(k))
             /\ ~GroupSettled(calls[1], GroupOf(k))
             /\ calls'[1].promises[k].stage = "fulfilled") =>
                LET id == calls'[1].promises[k].value.id
                IN  /\ id \notin IdsOf(state.photos)
                    /\ id \in IdsOf(state'.photos)
                    /\ PhotoOf(state'.photos, id).thumbnail = Undefined
                    /\ \E t \in thumbs' : t.id = id
       /\ \A id \in IdsOf(state'.photos) \ IdsOf(state.photos) :
            PhotoOf(state'.photos, id).thumbnail = Undefined
       /\ (\E t \in thumbs : thumbs' = thumbs \ {t}) =>
            /\ [i \in 1..Len(state'.photos) |-> state'.photos[i].id]
                  = [i \in 1..Len(state.photos) |-> state.photos[i].id]
            /\ calls' = calls
      ]_vars

\* the thumbnail of a record failed: the record is in photos without a
\* thumbnail and its call is complete with the file counted as processed
C29_Witness ==
    /\ notification = "thumbnail"
    /\ thumbs = {}
    /\ calls[1].status = "done"
    /\ calls[1].processedCount = 1
    /\ Len(state.photos) = 1
    /\ state.photos[1].thumbnail = Undefined
    /\ state.photos[1].id = calls[1].promises[1].value.id

\* C30: the stored location of every photo has at most MAX_LOCATION_LENGTH
\* characters and its stored comment at most MAX_COMMENT_LENGTH
C30_StoredTextsWithinLimits ==
    \A i \in 1..Len(state.photos) :
        /\ Len(state.photos[i].location) <= MAX_LOCATION_LENGTH
        /\ Len(state.photos[i].comment) <= MAX_COMMENT_LENGTH

\* C31: calling the function returned by a subscribe removes one
\* registration and leaves every other one, a second registration of the
\* same callback too, registered in the same order
C31_UnsubscribeRemovesOne ==
    [][ret'.op = "unsubscribe" =>
          \E i \in 1..Len(observers) :
              observers' = SubSeq(observers, 1, i - 1) \o SubSeq(observers, i + 1, Len(observers))
      ]_vars

\* C32: an undo() called after the photo-edit handler has committed an edit
\* of a location or comment leaves the field of that photo with the value it
\* had before the edit
C32_UndoRestoresPreEdit ==
    [][(/\ ret.op = "setState"
        /\ probe.op = "photoUpdate"
        /\ probe.found
        /\ ret'.op = "undo") =>
           /\ ret'.value
           /\ PhotoOf(state'.photos, probe.photoId)[probe.field] = probe.before
      ]_vars

\* C33: a running call of the legacy pipeline eventually completes, with
\* every file counted as processed or as an error
C33_LegacyCallCompletes ==
    (calls[1].status = "running") ~>
        (/\ calls[1].status = "done"
         /\ calls[1].processedCount + calls[1].errorCount = Len(calls[1].files))

\* C34: every accepted input on the location or comment field of a photo is
\* eventually committed to that field of the photo, unless a later input on
\* the same field of the same photo replaces it
C34_AcceptedInputCommitted ==
    \A photoId \in {1001, 1002}, field \in {"location", "comment"} :
        \A value \in {<<"a">>, <<"<", "a", ">">>} :
            (probe = [op |-> "debounce", photoId |-> photoId, field |-> field, value |-> value])
                ~> (\/ /\ FindIndex(state.photos, photoId) # 0
                       /\ PhotoOf(state.photos, photoId)[field] = sanitizeText(value)
                    \/ /\ probe.op = "debounce"
                       /\ probe.photoId = photoId
                       /\ probe.field = field
                       /\ probe.value # value)

\* C35: while cleanupAllImageUrls has not run, every photo of the state has
\* a url that begins with data:image/, also in the state undo restores after
\* a removal
C35_PhotosHaveUrl ==
    \A i \in 1..Len(state.photos) : startsWithDataImage(state.photos[i].url)

\* the records a call has resolved with, in the order of its files
AcceptedOf(call) ==
    LET fulfilled == SelectSeq(call.promises, LAMBDA p : p.stage = "fulfilled")
    IN  [i \in 1..Len(fulfilled) |-> fulfilled[i].value]

\* C36: a step of an ingest call leaves the photos current at that moment in
\* place and in order and appends behind them as many new records as it
\* counts as processed, and when the call is done the photos are the records
\* it accepted, in order, without those removed meanwhile
C36_AppendsBehindCurrent ==
    [][calls' # calls =>
          /\ Len(state'.photos) >= Len(state.photos)
          /\ SubSeq(state'.photos, 1, Len(state.photos)) = state.photos
          /\ Len(state'.photos) - Len(state.photos)
                = calls'[1].processedCount - calls[1].processedCount
          /\ \A i \in (Len(state.photos) + 1)..Len(state'.photos) :
                state'.photos[i].id \notin IdsOf(state.photos)
          /\ calls'[1].status = "done" =>
                /\ state'.photos = SelectSeq(AcceptedOf(calls'[1]),
                                             LAMBDA q : q.id \in IdsOf(state'.photos))
                /\ Len(state'.photos) = calls'[1].processedCount - used'.ops
      ]_vars

\* the second group of a call is in flight, and a photo of its first group
\* has been removed
C36_Witness ==
    /\ calls[1].status = "running"
    /\ calls[1].i = MAX_CONCURRENT_UPLOADS
    /\ used.ops = 1
    /\ calls[1].processedCount >= 2
    /\ Len(state.photos) = calls[1].processedCount - 1

\* the calls of notified made to callback cb
CallsTo(cb) == SelectSeq(notified, LAMBDA c : c.cb = cb)

\* C37: after setState every subscriber registered once has received the
\* transitions in the order they were applied, each one starting from the
\* state the one before led to, and the newState of the last notification it
\* received is the state of the store
C37_NotifiedInOrder ==
    ret.op = "setState" =>
        \A cb \in {observers[i] : i \in 1..Len(observers)} :
            Cardinality({i \in 1..Len(observers) : observers[i] = cb}) = 1 =>
                /\ CallsTo(cb) # <<>>
                /\ CallsTo(cb)[Len(CallsTo(cb))].newState = state
                /\ \A i \in 1..(Len(CallsTo(cb)) - 1) :
                      CallsTo(cb)[i].newState = CallsTo(cb)[i + 1].oldState

\* C38: below the size limit every step leaves the entries that stay in the
\* history as they were, whatever it assigns to the photo objects of the
\* state, and a step that pops an entry makes it the state
C38_HistoryEntriesFixed ==
    [][/\ \A n \in 1..Min(Len(history), Len(history')) : history'[n] = history[n]
       /\ Len(history') < Len(history) => state' = history[Len(history)]
      ]_vars

\* an entry of the history holds a photo without thumbnail whose object in
\* the state has been given one since
C38_Witness ==
    \E n \in 1..Len(history) :
        \E i \in 1..Len(history[n].photos), j \in 1..Len(state.photos) :
            /\ history[n].photos[i].id = state.photos[j].id
            /\ history[n].photos[i].thumbnail = Undefined
            /\ state.photos[j].thumbnail # Undefined

\* what the preview shows is what the state holds
PreviewCurrent ==
    probe.shown = [siteName |-> state.siteName, personName |-> state.personName]

\* C39: once the focus is released with a committed name the preview does
\* not show, the preview eventually shows it, unless an input takes the
\* focus again
C39_RenderedAfterRelease ==
    (probe.focus = "none" /\ ~probe.isInputInProgress /\ ~PreviewCurrent)
        ~> (PreviewCurrent \/ probe.isInputInProgress)

\* C40: while one of the protected inputs has focus, isInputInProgress is
\* true
C40_FocusedIsInProgress ==
    probe.focus # "none" => probe.isInputInProgress

====
